---- MODULE Spec2Model ----
(***************************************************************************)
(* Model of the MARLEY two-body reaction classes: marley::NuclearReaction  *)
(* and marley::ElectronReaction (src/src/NuclearReaction.cc), with the     *)
(* Reaction base helpers (src/Reaction.cc, src/unnamed/part_002).          *)
(*                                                                         *)
(* Energies and masses are integers in a common unit (the electron mass is *)
(* 1).  Doubles are modelled by exact integer/rational arithmetic: every   *)
(* comparison the code makes through a square root or a quotient is        *)
(* modelled by the equivalent comparison of squares / cross products.      *)
(* A cross section is returned as an integer multiple of a positive scale  *)
(* that depends only on the reaction and on KEa, so zero, sign and the     *)
(* order of two values at the same KEa are those of the code.              *)
(***************************************************************************)
EXTENDS Integers, Sequences, FiniteSets, TLC

\* ------------------------------------------------------------------------
\* Bounds of the model
\* ------------------------------------------------------------------------
MaxKE == 3
MaxLevelEnergy == 2
MaxME == 2

\* ------------------------------------------------------------------------
\* Program constants
\* ------------------------------------------------------------------------
ELECTRON == 11
ELECTRON_NEUTRINO == 12
MUON_ANTINEUTRINO == -14
DM == 17
\* sin^2(theta_W) = 0.23155 and 1/2, in units of 1/1000 (fixed point)
sin2thetaw == 232
ONE_HALF == 500

ProcessType == {"NeutrinoCC", "AntiNeutrinoCC", "NC", "NuElectronElastic", "DM"}
ME_Type == {"FERMI", "GAMOW_TELLER"}

\* PDG code of the target nucleus (40Ar); the residue of a reaction that
\* changes the charge by dq has the code 10LZZZAAAI with Z shifted by dq
TargetPdg == 1000180400
ResiduePdg(dq) == TargetPdg + 10000 * dq

\* Inputs of the calls
PdgInputs(r) == {r.pdg_a_, ELECTRON_NEUTRINO, DM}
KEInputs == (-1)..MaxKE
CosInputs == {-2, -1, 1, 2}

\* ------------------------------------------------------------------------
\* Doubles that may be NaN
\* ------------------------------------------------------------------------
Num(v) == [nan |-> FALSE, v |-> v]
NaN == [nan |-> TRUE, v |-> 0]
Times(a, b) == IF a.nan \/ b.nan THEN NaN ELSE Num(a.v * b.v)
isnan(a) == a.nan

\* ------------------------------------------------------------------------
\* Mass table
\* ------------------------------------------------------------------------
get_particle_mass(pdg) ==
  CASE pdg = ELECTRON -> 1
    [] pdg = -ELECTRON -> 1
    [] pdg = DM -> 2
    [] OTHER -> 0

get_ejectile_pdg(pdg_a, pt) ==
  CASE pt = "NeutrinoCC" -> ELECTRON
    [] pt = "AntiNeutrinoCC" -> -ELECTRON
    [] pt = "DM" -> ELECTRON
    [] OTHER -> pdg_a

get_projectiles(pt) ==
  IF pt = "DM" THEN {DM} ELSE {ELECTRON_NEUTRINO}

\* ------------------------------------------------------------------------
\* Matrix elements
\* ------------------------------------------------------------------------
MatrixElement ==
  [level_energy : 0..MaxLevelEnergy, strength : {0, 1}, type : ME_Type]

\* The reaction data format gives the levels in order of increasing energy
IsSorted(mes) ==
  \A i \in 1..(Len(mes) - 1) : mes[i].level_energy < mes[i + 1].level_energy

MatrixElementLists ==
  {mes \in UNION {[1..n -> MatrixElement] : n \in 0..MaxME} : IsSorted(mes)}

\* cos_theta_pdf(cos, beta) of a matrix element, times 12, at beta = 1/2:
\* Fermi (1 + beta cos)/2, Gamow-Teller (1 - beta cos / 3)/2
cos_theta_pdf(me, cos) ==
  IF me.type = "FERMI" THEN Num(6 + 3 * cos) ELSE Num(6 - cos)

\* ------------------------------------------------------------------------
\* Constructors
\* ------------------------------------------------------------------------
\* Variant of NuclearThreshold: the mass-difference formula in every case
NuclearThreshold_MassDifference(pt, ma, mb, mc, md_gs) ==
  [num |-> md_gs + mc - mb, den |-> 1]

\* The threshold is the rational num/den (den > 0)
NuclearThreshold(pt, ma, mb, mc, md_gs) ==
  IF pt = "DM"
  THEN [num |-> md_gs + mc - mb, den |-> 1]
  ELSE [num |-> (mc + md_gs) * (mc + md_gs) - (ma + mb) * (ma + mb),
        den |-> 2 * mb]

NuclearReaction(pt, pdg_a, pdg_b, pdg_c, pdg_d, q_d, mb, md_gs, mat_els, dsigma) ==
  LET ma == get_particle_mass(pdg_a)
      mc == get_particle_mass(pdg_c)
  IN [variant |-> "NuclearReaction",
      process_type_ |-> pt,
      pdg_a_ |-> pdg_a, pdg_b_ |-> pdg_b, pdg_c_ |-> pdg_c, pdg_d_ |-> pdg_d,
      q_d_ |-> q_d,
      ma_ |-> ma, mb_ |-> mb, mc_ |-> mc, md_gs_ |-> md_gs,
      KEa_threshold_ |-> NuclearThreshold(pt, ma, mb, mc, md_gs),
      matrix_elements_ |-> mat_els,
      dsigma |-> dsigma,
      g1_ |-> 0, g2_ |-> 0, Z |-> 0]

ElectronThreshold(ma, mb, mc, md) ==
  [num |-> (mc + md) * (mc + md) - (ma + mb) * (ma + mb), den |-> 2 * mb]

\* Variant of set_coupling_constants: an antineutrino gets its neutrino's
\* pair unexchanged
set_coupling_constants_SamePairForAntineutrino(pdg_a) ==
  CASE pdg_a \in {ELECTRON_NEUTRINO, -ELECTRON_NEUTRINO} ->
         [threw |-> FALSE, g1 |-> ONE_HALF + sin2thetaw, g2 |-> sin2thetaw]
    [] pdg_a \in {14, 16, -14, -16} ->
         [threw |-> FALSE, g1 |-> sin2thetaw - ONE_HALF, g2 |-> sin2thetaw]
    [] OTHER -> [threw |-> TRUE, g1 |-> 0, g2 |-> 0]

\* set_coupling_constants: the values left in g1_ and g2_, or the error
\* thrown for an unrecognized projectile
set_coupling_constants(pdg_a) ==
  CASE pdg_a = ELECTRON_NEUTRINO ->
         [threw |-> FALSE, g1 |-> ONE_HALF + sin2thetaw, g2 |-> sin2thetaw]
    [] pdg_a = -ELECTRON_NEUTRINO ->
         [threw |-> FALSE, g1 |-> sin2thetaw, g2 |-> ONE_HALF + sin2thetaw]
    [] pdg_a \in {14, 16} ->
         [threw |-> FALSE, g1 |-> sin2thetaw - ONE_HALF, g2 |-> sin2thetaw]
    [] pdg_a \in {-14, -16} ->
         [threw |-> FALSE, g1 |-> sin2thetaw, g2 |-> sin2thetaw - ONE_HALF]
    [] OTHER -> [threw |-> TRUE, g1 |-> 0, g2 |-> 0]

ElectronReaction(pdg_a, Z) ==
  LET pdg_c == get_ejectile_pdg(pdg_a, "NuElectronElastic")
      ma == get_particle_mass(pdg_a)
      mb == get_particle_mass(ELECTRON)
      mc == get_particle_mass(pdg_c)
      md == get_particle_mass(ELECTRON)
      g == set_coupling_constants(pdg_a)
  IN [variant |-> "ElectronReaction",
      process_type_ |-> "NuElectronElastic",
      pdg_a_ |-> pdg_a, pdg_b_ |-> ELECTRON, pdg_c_ |-> pdg_c,
      pdg_d_ |-> ELECTRON,
      q_d_ |-> 0,
      ma_ |-> ma, mb_ |-> mb, mc_ |-> mc, md_gs_ |-> md,
      KEa_threshold_ |-> ElectronThreshold(ma, mb, mc, md),
      matrix_elements_ |-> << >>,
      dsigma |-> Num(0),
      g1_ |-> g.g1, g2_ |-> g.g2, Z |-> Z]

\* ------------------------------------------------------------------------
\* State
\* ------------------------------------------------------------------------
VARIABLES
  rx,    \* the Reaction object (attributes set by its constructor)
  md_,   \* mutable residue mass of the Reaction: << >> while unset
  last,  \* the last call made on the reaction, with its outcome
  phys,  \* the last call of a free-standing physics function, with its outcome
  gen,   \* two Generators: random engines, configuration, cached values
  par    \* two workers creating events in parallel, and what they share

vars == <<rx, md_, last, phys, gen, par>>

\* ------------------------------------------------------------------------
\* Kinematic helpers
\* ------------------------------------------------------------------------
\* Mandelstam s = (ma + mb)^2 + 2 mb KEa
MandelstamS(r, KEa) ==
  (r.ma_ + r.mb_) * (r.ma_ + r.mb_) + 2 * r.mb_ * KEa

\* Sign of (level_energy - max_level_energy(KEa)), where
\* max_level_energy(KEa) = sqrt(s) - mc - md_gs: -1, 0 or 1, and 2 when the
\* square root is NaN (every comparison with it is then false)
max_level_energy_cmp(r, level_energy, KEa) ==
  LET s == MandelstamS(r, KEa)
      m == level_energy + r.mc_ + r.md_gs_
  IN IF s < 0 THEN 2
     ELSE IF m < 0 THEN -1
     ELSE IF m * m > s THEN 1
     ELSE IF m * m = s THEN 0
     ELSE -1

\* Variant of LevelTooHigh: the early exit of the level loop is never taken
LevelTooHigh_NeverBreaks(r, level_energy, KEa) == FALSE

\* the test  level_energy > max_E_level  of summed_xs_helper
LevelTooHigh(r, level_energy, KEa) ==
  max_level_energy_cmp(r, level_energy, KEa) = 1

\* KEa < KEa_threshold_
BelowThreshold(r, KEa) ==
  KEa * r.KEa_threshold_.den < r.KEa_threshold_.num

threshold_kinetic_energy(r) == r.KEa_threshold_

\* ------------------------------------------------------------------------
\* NuclearReaction cross sections
\* ------------------------------------------------------------------------
\* dm_total_xs(1.0, mat_el, KEa, beta_c_cm, check_max_E_level): the value
\* returned, 4 pi dsigmadCosBareUV, is computed from mb_, md_gs_, Zi_ and
\* literals only; it is the reaction's attribute dsigma (possibly NaN)
dm_total_xs(r, me, KEa, check_max_E_level) ==
  IF me.strength = 0 THEN Num(0)
  ELSE IF check_max_E_level /\ LevelTooHigh(r, me.level_energy, KEa)
  THEN Num(0)
  ELSE r.dsigma

\* Body of the loop of summed_xs_helper for one accessible matrix element
\* of nonvanishing strength
PartialXsec(r, me, KEa, cos_theta_c_cm, differential) ==
  LET p0 == dm_total_xs(r, me, KEa, FALSE)
      p1 == IF differential
            THEN Times(p0, cos_theta_pdf(me, cos_theta_c_cm))
            ELSE p0
  IN IF isnan(p1) THEN 0 ELSE p1.v

\* Variant of LevelLoop: a level whose partial cross section is NaN gets no
\* entry
RECURSIVE LevelLoop_DropsNaN(_, _, _, _, _)
LevelLoop_DropsNaN(r, KEa, cos_theta_c_cm, differential, i) ==
  IF i > Len(r.matrix_elements_) THEN << >>
  ELSE LET me == r.matrix_elements_[i]
       IN IF LevelTooHigh(r, me.level_energy, KEa) THEN << >>
          ELSE IF me.strength # 0 /\ ~isnan(dm_total_xs(r, me, KEa, FALSE))
          THEN <<PartialXsec(r, me, KEa, cos_theta_c_cm, differential)>>
               \o LevelLoop_DropsNaN(r, KEa, cos_theta_c_cm, differential, i + 1)
          ELSE LevelLoop_DropsNaN(r, KEa, cos_theta_c_cm, differential, i + 1)

\* The loop of summed_xs_helper from element i on: the partial cross
\* sections pushed to level_xsecs, in order
RECURSIVE LevelLoop(_, _, _, _, _)
LevelLoop(r, KEa, cos_theta_c_cm, differential, i) ==
  IF i > Len(r.matrix_elements_) THEN << >>
  ELSE LET me == r.matrix_elements_[i]
       IN IF LevelTooHigh(r, me.level_energy, KEa) THEN << >>
          ELSE IF me.strength # 0
          THEN <<PartialXsec(r, me, KEa, cos_theta_c_cm, differential)>>
               \o LevelLoop(r, KEa, cos_theta_c_cm, differential, i + 1)
          ELSE LevelLoop(r, KEa, cos_theta_c_cm, differential, i + 1)

RECURSIVE SumSeq(_)
SumSeq(q) == IF q = << >> THEN 0 ELSE Head(q) + SumSeq(Tail(q))

\* Variant of summed_xs_helper: the projectile is not checked
summed_xs_helper_NoProjectileCheck(r, pdg_a, KEa, cos_theta_c_cm, differential) ==
  IF differential /\ (cos_theta_c_cm > 1 \/ cos_theta_c_cm < -1)
  THEN [xsec |-> 0, level_xsecs |-> << >>]
  ELSE IF KEa <= 0 THEN [xsec |-> 0, level_xsecs |-> << >>]
  ELSE LET w == LevelLoop(r, KEa, cos_theta_c_cm, differential, 1)
       IN [xsec |-> SumSeq(w), level_xsecs |-> w]

\* Variant of summed_xs_helper: a projectile energy <= 0 is not rejected
summed_xs_helper_NoEnergyCheck(r, pdg_a, KEa, cos_theta_c_cm, differential) ==
  IF pdg_a # r.pdg_a_ THEN [xsec |-> 0, level_xsecs |-> << >>]
  ELSE IF differential /\ (cos_theta_c_cm > 1 \/ cos_theta_c_cm < -1)
  THEN [xsec |-> 0, level_xsecs |-> << >>]
  ELSE LET w == LevelLoop(r, KEa, cos_theta_c_cm, differential, 1)
       IN [xsec |-> SumSeq(w), level_xsecs |-> w]

\* summed_xs_helper: the returned sum and the contents of *level_xsecs
\* (which the caller passed empty; it is untouched by the early returns)
summed_xs_helper(r, pdg_a, KEa, cos_theta_c_cm, differential) ==
  IF pdg_a # r.pdg_a_ THEN [xsec |-> 0, level_xsecs |-> << >>]
  ELSE IF differential /\ (cos_theta_c_cm > 1 \/ cos_theta_c_cm < -1)
  THEN [xsec |-> 0, level_xsecs |-> << >>]
  ELSE IF KEa <= 0 THEN [xsec |-> 0, level_xsecs |-> << >>]
  ELSE LET w == LevelLoop(r, KEa, cos_theta_c_cm, differential, 1)
       IN [xsec |-> SumSeq(w), level_xsecs |-> w]

\* Variant of Contributors: an element that is too high is skipped and the
\* loop goes on
RECURSIVE Contributors_SkipsTooHigh(_, _, _)
Contributors_SkipsTooHigh(r, KEa, i) ==
  IF i > Len(r.matrix_elements_) THEN << >>
  ELSE LET me == r.matrix_elements_[i]
       IN IF ~LevelTooHigh(r, me.level_energy, KEa) /\ me.strength # 0
          THEN <<i>> \o Contributors_SkipsTooHigh(r, KEa, i + 1)
          ELSE Contributors_SkipsTooHigh(r, KEa, i + 1)

\* The indices (1-based) of the matrix elements whose partial cross section
\* summed_xs_helper pushed to level_xsecs, in the order of the pushes
RECURSIVE Contributors(_, _, _)
Contributors(r, KEa, i) ==
  IF i > Len(r.matrix_elements_) THEN << >>
  ELSE LET me == r.matrix_elements_[i]
       IN IF LevelTooHigh(r, me.level_energy, KEa) THEN << >>
          ELSE IF me.strength # 0
          THEN <<i>> \o Contributors(r, KEa, i + 1)
          ELSE Contributors(r, KEa, i + 1)

\* Lines 481-489 of summed_xs_helper: the function that is called for the
\* partial cross section of a level, and what it returns.  The test is the
\* literal 1, so the second branch, total_xs(mat_el, ...), is never taken
LevelCrossSection(r, me, KEa) ==
  [callee |-> "dm_total_xs", value |-> dm_total_xs(r, me, KEa, FALSE)]

\* pc_cm = real_sqrt(Ec_cm^2 - mc^2) is 0 for the level of me: the radicand,
\* times 4 s, is (s + mc^2 - md2)^2 - 4 s mc^2
EjectileAtRest(r, me, KEa) ==
  LET s == MandelstamS(r, KEa)
      md == r.md_gs_ + me.level_energy
      n == s + r.mc_ * r.mc_ - md * md
  IN n * n <= 4 * s * r.mc_ * r.mc_

\* A number the per-level total_xs returns: 0, or the allowed-approximation
\* product with the extra factor of the process type
ZeroXs == [formula |-> "zero", factor |-> "none", vanishes |-> TRUE]
AllowedXs(r, me, KEa, factor) ==
  [formula |-> "allowed", factor |-> factor,
   vanishes |-> EjectileAtRest(r, me, KEa)]

\* NuclearReaction::total_xs(me, KEa, beta_c_cm, check_max_E_level).  For
\* the DM process type control reaches the closing brace of the function
\* without a return statement: the call has no defined result
total_xs_MatrixElement(r, me, KEa, check_max_E_level) ==
  IF me.strength = 0 THEN [outcome |-> "returned", value |-> ZeroXs]
  ELSE IF check_max_E_level /\ LevelTooHigh(r, me.level_energy, KEa)
  THEN [outcome |-> "returned", value |-> ZeroXs]
  ELSE IF r.process_type_ # "DM"
  THEN IF r.process_type_ \in {"NeutrinoCC", "AntiNeutrinoCC"}
       THEN [outcome |-> "returned",
             value |-> AllowedXs(r, me, KEa, "Coulomb")]
       ELSE IF r.process_type_ = "NC"
       THEN [outcome |-> "returned",
             value |-> AllowedXs(r, me, KEa,
                                 IF me.type = "FERMI" THEN "weak_charge"
                                 ELSE "none")]
       ELSE [outcome |-> "threw", value |-> ZeroXs]
  ELSE [outcome |-> "no_return", value |-> ZeroXs]

\* NuclearReaction::diff_xs(mat_el, KEa, cos_theta_c_cm): 0 outside the
\* range of the cosine, else the per-level total_xs (with the level check)
\* times the angular factor, which is positive and leaves the outcome as
\* it is
diff_xs_MatrixElement(r, me, KEa, cos_theta_c_cm) ==
  IF cos_theta_c_cm > 1 \/ cos_theta_c_cm < -1
  THEN [outcome |-> "returned", value |-> ZeroXs]
  ELSE total_xs_MatrixElement(r, me, KEa, TRUE)

Nuclear_total_xs(r, pdg_a, KEa) ==
  summed_xs_helper(r, pdg_a, KEa, 0, FALSE).xsec

Nuclear_diff_xs(r, pdg_a, KEa, cos_theta_c_cm) ==
  summed_xs_helper(r, pdg_a, KEa, cos_theta_c_cm, TRUE).xsec

\* ------------------------------------------------------------------------
\* ElectronReaction cross sections (md is the residue mass md_)
\* ------------------------------------------------------------------------
\* total_xs = [(4/pi) (GF Ec_cm)^2 / (3 s^2 10^6)] * (value below)
Electron_total_xs(r, md, pdg_a, KEa) ==
  IF pdg_a # r.pdg_a_ THEN 0
  ELSE IF BelowThreshold(r, KEa) THEN 0
  ELSE LET s == MandelstamS(r, KEa)
           EcN == s + r.mc_ * r.mc_ - md * md
           g1 == r.g1_
           g2 == r.g2_
       IN IF EcN = 0 THEN 0
          ELSE r.Z * (3 * g1 * g1 * s * s
                      + (g2 * g2 - 3 * g1 * g2) * md * md * s
                      + g2 * g2 * (s * s + md * md * md * md))

\* diff_xs = [(2/pi) (GF Ec_cm)^2 / (4 s^2 10^6)] * (value below)
Electron_diff_xs(r, md, pdg_a, KEa, cos_theta_c_cm) ==
  IF pdg_a # r.pdg_a_ THEN 0
  ELSE IF BelowThreshold(r, KEa) THEN 0
  ELSE LET s == MandelstamS(r, KEa)
           EcN == s + r.mc_ * r.mc_ - md * md
           g1 == r.g1_
           g2 == r.g2_
           c1 == cos_theta_c_cm - 1
           h == 2 * s + (s - md * md) * c1
       IN IF EcN = 0 THEN 0
          ELSE r.Z * (4 * s * s * g1 * g1
                      + 4 * g1 * g2 * md * md * s * c1
                      + g2 * g2 * h * h)

\* ------------------------------------------------------------------------
\* ElectronReaction::create_event: the maximum handed to rejection sampling

COS_MIN == -1
COS_MAX == 1

\* The coupling constants of set_coupling_constants at a resolution of 1/4
\* (sin^2(theta_W) rounded to 1/4, so ONE_HALF is 2 quarters): the values at
\* which the differential cross section is evaluated exactly at a rational
\* scattering cosine
QuarterCouplings(pdg_a) ==
  LET s2 == 1
      half == 2
  IN CASE pdg_a = ELECTRON_NEUTRINO -> [g1 |-> half + s2, g2 |-> s2]
       [] pdg_a = -ELECTRON_NEUTRINO -> [g1 |-> s2, g2 |-> half + s2]
       [] pdg_a \in {14, 16} -> [g1 |-> s2 - half, g2 |-> s2]
       [] pdg_a \in {-14, -16} -> [g1 |-> s2, g2 |-> s2 - half]

\* A finite double as the rational num/den (den > 0), or the most negative
\* finite double std::numeric_limits<double>::lowest()
Finite(n, d) == [lowest |-> FALSE, num |-> n, den |-> d]

Lowest == [lowest |-> TRUE, num |-> 0, den |-> 1]

\* a < b for two such values
DoubleLess(a, b) ==
  IF b.lowest THEN FALSE
  ELSE IF a.lowest THEN TRUE
  ELSE a.num * b.den < b.num * a.den

\* std::max over an initializer list: the first of the greatest elements
RECURSIVE StdMax(_)
StdMax(list) ==
  IF Len(list) = 1 THEN list[1]
  ELSE LET rest == StdMax(Tail(list))
       IN IF DoubleLess(list[1], rest) THEN rest ELSE list[1]

\* diff_xs at the scattering cosine c.num / c.den, in the units of
\* Electron_diff_xs:
\* diff_xs = [(2/pi) (GF Ec_cm)^2 / (4 s^2 g^2)] * (value below), where g is
\* the number of coupling units in 1
Electron_diff_xs_at(r, md, pdg_a, KEa, c) ==
  IF pdg_a # r.pdg_a_ THEN Finite(0, 1)
  ELSE IF BelowThreshold(r, KEa) THEN Finite(0, 1)
  ELSE LET s == MandelstamS(r, KEa)
           EcN == s + r.mc_ * r.mc_ - md * md
           g1 == r.g1_
           g2 == r.g2_
           c1 == c.num - c.den
           h == 2 * s * c.den + (s - md * md) * c1
       IN IF EcN = 0 THEN Finite(0, 1)
          ELSE Finite(r.Z * (4 * s * s * g1 * g1 * c.den * c.den
                             + 4 * g1 * g2 * md * md * s * c1 * c.den
                             + g2 * g2 * h * h),
                      c.den * c.den)

\* Variant of ElectronMaximum: the value at COS_MAX is left out
ElectronMaximum_SkipsCosMax(r, md, pdg_a, KEa) ==
  LET s == MandelstamS(r, KEa)
      B == r.g2_ * r.g2_ * (s - md * md) * (s - md * md)
      A == 2 * r.g1_ * r.g2_ * md * md * s
           + 2 * r.g2_ * r.g2_ * (s - md * md) * s - B
      in_range == /\ B # 0
                  /\ -A >= COS_MIN * B
                  /\ -A <= COS_MAX * B
      cth == IF B = 0 THEN [num |-> 0, den |-> 1] ELSE [num |-> -A, den |-> B]
      dxs_at_cth == IF in_range THEN Electron_diff_xs_at(r, md, pdg_a, KEa, cth)
                    ELSE Lowest
      dxs_at_min == Electron_diff_xs_at(r, md, pdg_a, KEa,
                                        [num |-> COS_MIN, den |-> 1])
      dxs_at_max == Electron_diff_xs_at(r, md, pdg_a, KEa,
                                        [num |-> COS_MAX, den |-> 1])
  IN [cth_in_range |-> in_range, cth |-> cth,
      dxs_at_cth |-> dxs_at_cth, dxs_at_min |-> dxs_at_min,
      dxs_at_max |-> dxs_at_max,
      max |-> StdMax(<<dxs_at_min, dxs_at_cth>>)]

\* The maximum computed by create_event. With me2_over_s = md^2 / s the code
\* has B = (1/2) (g2 (1 - me2_over_s))^2 and
\* A = g1 g2 me2_over_s + g2^2 (1 - me2_over_s) - B; below both are multiplied
\* by 2 s^2, which leaves cth = -A / B as it is. B = 0 makes cth infinite or
\* NaN, and both comparisons with COS_MIN and COS_MAX cannot then hold.
ElectronMaximum(r, md, pdg_a, KEa) ==
  LET s == MandelstamS(r, KEa)
      B == r.g2_ * r.g2_ * (s - md * md) * (s - md * md)
      A == 2 * r.g1_ * r.g2_ * md * md * s
           + 2 * r.g2_ * r.g2_ * (s - md * md) * s - B
      in_range == /\ B # 0
                  /\ -A >= COS_MIN * B
                  /\ -A <= COS_MAX * B
      cth == IF B = 0 THEN [num |-> 0, den |-> 1] ELSE [num |-> -A, den |-> B]
      dxs_at_cth == IF in_range THEN Electron_diff_xs_at(r, md, pdg_a, KEa, cth)
                    ELSE Lowest
      dxs_at_min == Electron_diff_xs_at(r, md, pdg_a, KEa,
                                        [num |-> COS_MIN, den |-> 1])
      dxs_at_max == Electron_diff_xs_at(r, md, pdg_a, KEa,
                                        [num |-> COS_MAX, den |-> 1])
  IN [cth_in_range |-> in_range, cth |-> cth,
      dxs_at_cth |-> dxs_at_cth, dxs_at_min |-> dxs_at_min,
      dxs_at_max |-> dxs_at_max,
      max |-> StdMax(<<dxs_at_min, dxs_at_max, dxs_at_cth>>)]

\* ------------------------------------------------------------------------
\* Events
\* ------------------------------------------------------------------------
Particle(role, id, mass) == [role |-> role, id |-> id, mass |-> mass]

\* Variant of make_event_object: the event records the residue mass where
\* the excitation energy belongs
make_event_object_RecordsMass(r, md, E_level) ==
  [Ex |-> md,
   initial |-> <<Particle("pr_projectile", r.pdg_a_, r.ma_),
                 Particle("pr_target", r.pdg_b_, r.mb_)>>,
   final |-> <<Particle("pr_ejectile", r.pdg_c_, r.mc_),
               Particle("pr_residue", r.pdg_d_, md)>>]

\* Reaction::make_event_object: the particles and the event record (the
\* residue has the current residue mass md)
make_event_object(r, md, E_level) ==
  [Ex |-> E_level,
   initial |-> <<Particle("pr_projectile", r.pdg_a_, r.ma_),
                 Particle("pr_target", r.pdg_b_, r.mb_)>>,
   final |-> <<Particle("pr_ejectile", r.pdg_c_, r.mc_),
               Particle("pr_residue", r.pdg_d_, md)>>]

\* std::discrete_distribution over the weights w: an index of positive
\* weight; with a negative weight the distribution's precondition is
\* broken and any index of w may come out
SampleIndices(w) ==
  IF \E i \in 1..Len(w) : w[i] < 0
  THEN 1..Len(w)
  ELSE {i \in 1..Len(w) : w[i] > 0}

Threw(md) == [threw |-> TRUE, event |-> << >>, md |-> md, me_index |-> -1]

\* Variant of Nuclear_create_event: the sum of the weights is not checked
Nuclear_create_event_NoSumCheck(r, md, pdg_a, KEa) ==
  IF pdg_a # r.pdg_a_ THEN {Threw(md)}
  ELSE IF BelowThreshold(r, KEa) THEN {Threw(md)}
  ELSE LET h == summed_xs_helper(r, pdg_a, KEa, 0, FALSE)
           level_weights == h.level_xsecs
       IN IF level_weights = << >> THEN {Threw(md)}
          ELSE {LET sampled_matrix_el == r.matrix_elements_[i]
                    E_level == sampled_matrix_el.level_energy
                    new_md == r.md_gs_ + E_level
                IN [threw |-> FALSE,
                    event |-> <<make_event_object(r, new_md, E_level)>>,
                    md |-> <<new_md>>,
                    me_index |-> i - 1]
                : i \in 1..Len(level_weights)}

\* NuclearReaction::create_event: the set of possible outcomes, each with
\* the value left in md_ and the (0-based) index sampled
Nuclear_create_event(r, md, pdg_a, KEa) ==
  IF pdg_a # r.pdg_a_ THEN {Threw(md)}
  ELSE IF BelowThreshold(r, KEa) THEN {Threw(md)}
  ELSE LET h == summed_xs_helper(r, pdg_a, KEa, 0, FALSE)
           level_weights == h.level_xsecs
           sum_of_xsecs == h.xsec
       IN IF level_weights = << >> THEN {Threw(md)}
          ELSE IF sum_of_xsecs <= 0 THEN {Threw(md)}
          ELSE {LET sampled_matrix_el == r.matrix_elements_[i]
                    E_level == sampled_matrix_el.level_energy
                    new_md == r.md_gs_ + E_level
                IN [threw |-> FALSE,
                    event |-> <<make_event_object(r, new_md, E_level)>>,
                    md |-> <<new_md>>,
                    me_index |-> i - 1]
                : i \in SampleIndices(level_weights)}

\* Variant of Electron_create_event: the threshold is not checked
Electron_create_event_NoThresholdCheck(r, md, pdg_a, KEa) ==
  IF pdg_a # r.pdg_a_ THEN {Threw(md)}
  ELSE {[threw |-> FALSE,
         event |-> <<make_event_object(r, md[1], 0)>>,
         md |-> md,
         me_index |-> -1]}

\* ElectronReaction::create_event
Electron_create_event(r, md, pdg_a, KEa) ==
  IF pdg_a # r.pdg_a_ THEN {Threw(md)}
  ELSE IF BelowThreshold(r, KEa) THEN {Threw(md)}
  ELSE {[threw |-> FALSE,
         event |-> <<make_event_object(r, md[1], 0)>>,
         md |-> md,
         me_index |-> -1]}

\* ------------------------------------------------------------------------
\* Virtual dispatch on the reaction variant
\* ------------------------------------------------------------------------
total_xs(r, md, pdg_a, KEa) ==
  IF r.variant = "NuclearReaction"
  THEN Nuclear_total_xs(r, pdg_a, KEa)
  ELSE Electron_total_xs(r, md[1], pdg_a, KEa)

diff_xs(r, md, pdg_a, KEa, cos_theta_c_cm) ==
  IF r.variant = "NuclearReaction"
  THEN Nuclear_diff_xs(r, pdg_a, KEa, cos_theta_c_cm)
  ELSE Electron_diff_xs(r, md[1], pdg_a, KEa, cos_theta_c_cm)

create_event(r, md, pdg_a, KEa) ==
  IF r.variant = "NuclearReaction"
  THEN Nuclear_create_event(r, md, pdg_a, KEa)
  ELSE Electron_create_event(r, md, pdg_a, KEa)

\* ------------------------------------------------------------------------
\* Gamma transitions (TMarleyNuclearPhysics)
\* ------------------------------------------------------------------------
MaxTwoJ == 4
MaxL == 3

TransitionType == {"electric", "magnetic"}
\* a TransitionType argument may hold a value that is neither enumerator
TransitionTypeInputs == TransitionType \cup {"unrecognized"}
Parities == {-1, 1}

Abs(x) == IF x < 0 THEN -x ELSE x

\* outcome of a call that threw std::runtime_error: nothing is returned and
\* the reference argument l is left alone
InvalidTransition == [threw |-> TRUE, type |-> "none", l |-> 0]

\* Variant of two_delta_J: the difference of the spins, sign kept
two_delta_J_Signed(twoJi, twoJf) == twoJf - twoJi

two_delta_J(twoJi, twoJf) == Abs(twoJf - twoJi)

\* Variant of electric_parity: the parity rule reversed
electric_parity_Reversed(l) == IF l % 2 = 1 THEN 1 ELSE -1

\* Pi * Pf = -1 gives electric transitions for odd l, +1 for even l
electric_parity(l) == IF l % 2 = 1 THEN -1 ELSE 1

\* Variant of determine_gamma_transition_type: 0 -> 0 is let through
determine_gamma_transition_type_AllowsZeroZero(twoJi, Pi, twoJf, Pf) ==
  IF two_delta_J(twoJi, twoJf) % 2 # 0 THEN InvalidTransition
  ELSE LET l == IF two_delta_J(twoJi, twoJf) = 0 THEN 1
                ELSE two_delta_J(twoJi, twoJf) \div 2
       IN [threw |-> FALSE,
           type |-> IF Pi * Pf = electric_parity(l) THEN "electric"
                    ELSE "magnetic",
           l |-> l]

\* determine_gamma_transition_type(twoJi, Pi, twoJf, Pf, l): the returned
\* type and the value loaded into l
determine_gamma_transition_type(twoJi, Pi, twoJf, Pf) ==
  IF twoJi = 0 /\ twoJf = 0 THEN InvalidTransition
  ELSE IF two_delta_J(twoJi, twoJf) % 2 # 0 THEN InvalidTransition
  ELSE LET l == IF two_delta_J(twoJi, twoJf) = 0 THEN 1
                ELSE two_delta_J(twoJi, twoJf) \div 2
       IN [threw |-> FALSE,
           type |-> IF Pi * Pf = electric_parity(l) THEN "electric"
                    ELSE "magnetic",
           l |-> l]

\* outcome of gamma_strength_function: whether it threw, the number of
\* calls of gamma_strength_function made below this one, the giant
\* resonance whose parameters were used and the number of factors 8e-4
\* applied to its strength
StrengthError ==
  [threw |-> TRUE, nested |-> 0, resonance |-> "none", damping |-> 0]

\* Variant of gamma_strength_function: the multipolarity is not checked
gamma_strength_function_NoMultipolarityCheck(Z, A, type, l, e_gamma) ==
  IF type = "electric"
  THEN [threw |-> FALSE, nested |-> 0,
        resonance |-> IF l = 1 THEN "E1" ELSE "E2",
        damping |-> IF l > 2 THEN l - 2 ELSE 0]
  ELSE IF type = "magnetic"
  THEN [threw |-> FALSE, nested |-> 1, resonance |-> "M1",
        damping |-> IF l > 1 THEN l - 1 ELSE 0]
  ELSE StrengthError

RECURSIVE gamma_strength_function(_, _, _, _, _)
gamma_strength_function(Z, A, type, l, e_gamma) ==
  IF l < 1 THEN StrengthError
  ELSE IF type = "electric"
  THEN [threw |-> FALSE, nested |-> 0,
        resonance |-> IF l = 1 THEN "E1" ELSE "E2",
        damping |-> IF l > 2 THEN l - 2 ELSE 0]
  ELSE IF type = "magnetic"
  THEN LET factor_m1 == gamma_strength_function(Z, A, "electric", 1, 7)
       IN IF factor_m1.threw THEN StrengthError
          ELSE [threw |-> FALSE, nested |-> 1 + factor_m1.nested,
                resonance |-> "M1",
                damping |-> IF l > 1 THEN l - 1 ELSE 0]
  ELSE StrengthError

\* ------------------------------------------------------------------------
\* Weisskopf estimate (TMarleyNuclearPhysics::weisskopf_partial_decay_width)

MaxMultipolarity == 10

\* The largest value of the 32-bit signed int dfact
INT_MAX == 2147483647

\* a + b in 32-bit two's complement
AddWrap(a, b) ==
  IF a > 0 /\ b > 0 /\ a > INT_MAX - b
  THEN (a - INT_MAX - 1) + (b - INT_MAX - 1)
  ELSE IF a < 0 /\ b < 0 /\ a < (-INT_MAX - 1) - b
  THEN (a + INT_MAX + 1) + (b + INT_MAX + 1)
  ELSE a + b

\* d * n in 32-bit two's complement (n >= 0), by repeated addition
RECURSIVE MulWrap(_, _)
MulWrap(d, n) == IF n = 0 THEN 0 ELSE AddWrap(MulWrap(d, n - 1), d)

\* d * n does not fit a 32-bit signed int (d, n > 0)
Overflows(d, n) == d > INT_MAX \div n

\* for (int n = 2*l + 1; n > 0; n -= 2) dfact *= n;
\* the set of states the accumulator can be left in. A product that does
\* not fit is signed overflow (undefined behaviour): the build either wraps
\* modulo 2^32 and goes on, or traps.
RECURSIVE dfact_loop(_, _)
dfact_loop(acc, n) ==
  IF n <= 0 \/ acc.trapped THEN {acc}
  ELSE IF acc.dfact > 0 /\ ~Overflows(acc.dfact, n)
  THEN dfact_loop([acc EXCEPT !.dfact = acc.dfact * n], n - 2)
  ELSE dfact_loop([ub |-> TRUE, trapped |-> FALSE,
                   dfact |-> MulWrap(acc.dfact, n)], n - 2)
       \cup {[ub |-> TRUE, trapped |-> TRUE, dfact |-> acc.dfact]}

\* weisskopf_partial_decay_width(A, type, l, e_gamma): the accumulator after
\* the loop and the way the call ends; the width itself is named by the
\* expression returned
weisskopf_partial_decay_width(A, type, l, e_gamma) ==
  {[dfact |-> acc.dfact, ub |-> acc.ub,
    outcome |-> CASE acc.trapped -> "trapped"
                  [] type = "electric" -> "returned"
                  [] type = "magnetic" -> "returned"
                  [] OTHER -> "threw",
    width |-> CASE acc.trapped -> "none"
                [] type = "electric" -> "el_width"
                [] type = "magnetic" -> "10 * el_width * (hbar_c / (mp * R))^2"
                [] OTHER -> "none"] :
     acc \in dfact_loop([ub |-> FALSE, trapped |-> FALSE, dfact |-> 1],
                        2 * l + 1)}

\* ------------------------------------------------------------------------
\* Spin-parity of the residue (NuclearReaction::create_event)
\* ------------------------------------------------------------------------
BOGUS_TWO_J_VALUE == -99999

ME_TypeInputs == ME_Type \cup {"UNKNOWN"}

\* The Level a matrix element links: none (a null pointer) or one with its
\* spin and parity
LevelInputs ==
  {<< >>} \cup {<<[twoJ |-> j, parity |-> P]>> : j \in 0..MaxTwoJ, P \in Parities}

\* Variant of allowed_twoJs: the loop starts at twoJ_gs - 2
allowed_twoJs_NoAbs(twoJ_gs) ==
  {j \in (twoJ_gs - 2)..(twoJ_gs + 2) : (j - (twoJ_gs - 2)) % 2 = 0}

\* The values the loop  for myTwoJ = |twoJ_gs - 2|; myTwoJ <= twoJ_gs + 2;
\* myTwoJ += 2  pushes to allowed_twoJs
allowed_twoJs(twoJ_gs) ==
  {j \in Abs(twoJ_gs - 2)..(twoJ_gs + 2) : (j - Abs(twoJ_gs - 2)) % 2 = 0}

SpinParityError == [threw |-> TRUE, twoJ |-> BOGUS_TWO_J_VALUE, P |-> 1]

\* The (twoJ, P) create_event can hand to make_event_object for a sampled
\* matrix element of the given type and Level and a target ground state
\* (twoJ_gs, P_gs); twoJ starts as BOGUS_TWO_J_VALUE and P as positive.  An
\* unrecognized type already fails in sample_cos_theta_c_cm
ResidueSpinParity(type, final_lev, twoJ_gs, P_gs) ==
  IF type \notin ME_Type THEN {SpinParityError}
  ELSE IF final_lev # << >>
  THEN {[threw |-> FALSE, twoJ |-> final_lev[1].twoJ,
         P |-> final_lev[1].parity]}
  ELSE IF type = "FERMI"
  THEN {[threw |-> FALSE, twoJ |-> twoJ_gs, P |-> P_gs]}
  ELSE IF type = "GAMOW_TELLER"
  THEN IF twoJ_gs = 0
       THEN {[threw |-> FALSE, twoJ |-> 2, P |-> P_gs]}
       ELSE {[threw |-> FALSE, twoJ |-> j, P |-> P_gs] :
               j \in allowed_twoJs(twoJ_gs)}
  ELSE {SpinParityError}

\* ------------------------------------------------------------------------
\* Two-body kinematics (Reaction::two_two_scatter)
\* ------------------------------------------------------------------------
\* Variant of real_sqrt_sq: a negative argument is passed on (std::sqrt
\* would give NaN)
real_sqrt_sq_NoClamp(num) == num

\* The square of marley_utils::real_sqrt(num): zero for a negative argument
real_sqrt_sq(num) == IF num < 0 THEN 0 ELSE num

\* two_two_scatter(Ea, s, Ec_cm, pc_cm, Ed_cm) on a reaction with masses
\* k.ma, k.mb, k.mc, k.md.  With sqrt_s irrational the doubles are kept
\* exact as numerators:
\*   Ec_cm = Ec_num / (2 sqrt_s),  pc_cm^2 = pc2_num / (4 s),
\*   Ed_cm = md if Ed_is_md, else Ed_num / (2 sqrt_s).
\* finite is FALSE when s <= 0 (sqrt_s is then NaN or the division is by 0)
two_two_scatter(k, Ea) ==
  LET s == k.ma * k.ma + k.mb * k.mb + 2 * k.mb * Ea
      Ec_num == s + k.mc * k.mc - k.md * k.md
      radicand_num == Ec_num * Ec_num - 4 * s * k.mc * k.mc
      Ed_num == 2 * s - Ec_num
      \* sqrt_s - Ec_cm < md
      below_md == Ed_num < 0 \/ Ed_num * Ed_num < 4 * s * k.md * k.md
  IN [s |-> s,
      finite |-> s > 0,
      Ec_num |-> Ec_num,
      pc2_num |-> real_sqrt_sq(radicand_num),
      Ed_is_md |-> below_md,
      Ed_num |-> Ed_num]

\* ------------------------------------------------------------------------
\* The particles of an Event (Reaction::make_event_object and its override)
\* ------------------------------------------------------------------------
Momenta == {<<x, y, z>> : x \in {-1, 0, 1}, y \in {-1, 0, 1}, z \in {-1, 0, 1}}

Negated(p) == <<-p[1], -p[2], -p[3]>>

\* Particle(pdg, E, px, py, pz, m): the charge is whatever the constructor
\* gives until set_charge is called
FourVector(role, id, E, p, mass) ==
  [role |-> role, id |-> id, E |-> E, p |-> p, mass |-> mass,
   charge |-> [set |-> FALSE, q |-> 0]]

\* Reaction::make_event_object, the particles as they are constructed (the
\* ejectile and the residue in the CM frame, before the boost along z).
\* pc is the ejectile's CM momentum (pc_cm_x, pc_cm_y, pc_cm_z); the
\* projectile's momentum pa = real_sqrt(Ea^2 - ma^2) is kept as its square
Reaction_make_event_object(r, md, Ea, pc, Ec_cm, Ed_cm, E_level) ==
  [Ex |-> E_level,
   reaction |-> r,
   initial |-> <<[FourVector("pr_projectile", r.pdg_a_, Ea, <<0, 0, 0>>, r.ma_)
                    EXCEPT !.p = <<0, 0, [sq |-> real_sqrt_sq(Ea * Ea - r.ma_ * r.ma_)]>>],
                 FourVector("pr_target", r.pdg_b_, r.mb_, <<0, 0, 0>>, r.mb_)>>,
   final |-> <<FourVector("pr_ejectile", r.pdg_c_, Ec_cm, pc, r.mc_),
               FourVector("pr_residue", r.pdg_d_, Ed_cm, Negated(pc), md)>>]

\* Variant of NuclearReaction_make_event_object: the charges are left as
\* the base class made them
NuclearReaction_make_event_object_NoCharges(r, md, Ea, pc, Ec_cm, Ed_cm, E_level) ==
  Reaction_make_event_object(r, md, Ea, pc, Ec_cm, Ed_cm, E_level)

\* NuclearReaction::make_event_object: the base event with the charge of
\* the target set to 0 and that of the residue to q_d_
NuclearReaction_make_event_object(r, md, Ea, pc, Ec_cm, Ed_cm, E_level) ==
  LET event == Reaction_make_event_object(r, md, Ea, pc, Ec_cm, Ed_cm,
                                          E_level)
  IN [event EXCEPT !.initial[2].charge = [set |-> TRUE, q |-> 0],
                   !.final[2].charge = [set |-> TRUE, q |-> r.q_d_]]

\* ------------------------------------------------------------------------
\* Coulomb correction (NuclearReaction::coulomb_correction_factor)
\* ------------------------------------------------------------------------
MaxFactor == 3

CoulombMode ==
  {"NO_CORRECTION", "FERMI_FUNCTION", "EMA", "MEMA", "FERMI_AND_EMA",
   "FERMI_AND_MEMA"}
\* coulomb_mode_ may hold a value that is no enumerator
CoulombModeInputs == CoulombMode \cup {"unrecognized"}

\* ema_factor(beta_rel_cd, ok, modified_ema): e holds what the kinematics
\* give: F_EMA, F_MEMA and the flag E_c_FNR_eff >= mc_
ema_factor(e, modified_ema) ==
  [ok |-> e.ok, value |-> IF modified_ema THEN e.F_MEMA ELSE e.F_EMA]

\* Variant of coulomb_correction_factor: a hybrid mode always takes the
\* Fermi function
coulomb_correction_factor_HybridIsFermi(coulomb_mode_, fermi_func, e) ==
  IF coulomb_mode_ = "NO_CORRECTION" THEN [threw |-> FALSE, value |-> 1]
  ELSE IF coulomb_mode_ = "FERMI_FUNCTION"
  THEN [threw |-> FALSE, value |-> fermi_func]
  ELSE IF coulomb_mode_ \in {"EMA", "MEMA"}
  THEN LET f == ema_factor(e, coulomb_mode_ = "MEMA")
       IN IF f.ok THEN [threw |-> FALSE, value |-> f.value]
          ELSE [threw |-> TRUE, value |-> 0]
  ELSE IF coulomb_mode_ \notin {"FERMI_AND_EMA", "FERMI_AND_MEMA"}
  THEN [threw |-> TRUE, value |-> 0]
  ELSE [threw |-> FALSE, value |-> fermi_func]

\* coulomb_correction_factor(beta_rel_cd), with fermi_func the value of
\* fermi_function(beta_rel_cd); the factors are integers, 1 being unity
coulomb_correction_factor(coulomb_mode_, fermi_func, e) ==
  IF coulomb_mode_ = "NO_CORRECTION" THEN [threw |-> FALSE, value |-> 1]
  ELSE IF coulomb_mode_ = "FERMI_FUNCTION"
  THEN [threw |-> FALSE, value |-> fermi_func]
  ELSE LET use_mema == coulomb_mode_ \in {"MEMA", "FERMI_AND_MEMA"}
           f == ema_factor(e, use_mema)
           EMA_ok == f.ok
           factor_EMA == f.value
           diff_Fermi == Abs(fermi_func - 1)
           diff_EMA == Abs(factor_EMA - 1)
       IN IF coulomb_mode_ \in {"EMA", "MEMA"}
          THEN IF EMA_ok THEN [threw |-> FALSE, value |-> factor_EMA]
               ELSE [threw |-> TRUE, value |-> 0]
          ELSE IF coulomb_mode_ \notin {"FERMI_AND_EMA", "FERMI_AND_MEMA"}
          THEN [threw |-> TRUE, value |-> 0]
          ELSE IF ~EMA_ok THEN [threw |-> FALSE, value |-> fermi_func]
          ELSE IF diff_Fermi < diff_EMA
          THEN [threw |-> FALSE, value |-> fermi_func]
          ELSE [threw |-> FALSE, value |-> factor_EMA]

\* ------------------------------------------------------------------------
\* Construction of an ElectronReaction from any projectile code
\* ------------------------------------------------------------------------
ConstructionFailed == [threw |-> TRUE, reaction |-> << >>]

\* new ElectronReaction(pdg_a, target_atom_pdg): the object, or the error
\* that leaves no object
ConstructElectronReaction(pdg_a, Z) ==
  IF set_coupling_constants(pdg_a).threw THEN ConstructionFailed
  ELSE [threw |-> FALSE, reaction |-> <<ElectronReaction(pdg_a, Z)>>]

\* ------------------------------------------------------------------------
\* Random engine of a Generator (std::mt19937_64 rand_gen_), scaled down:
\* a vector of state words and a position in it
\* ------------------------------------------------------------------------
EngineWords == 2
EngineModulus == 16
Seeds == {1, 2}

\* std::mt19937_64(seed): every word is set from the seed and the position
\* is put at the end, so that the first draw regenerates the words
SeedEngine(seed) ==
  [words |-> [i \in 1..EngineWords |-> (seed * (i + 2) + i) % EngineModulus],
   pos |-> EngineWords]

Twist(words) ==
  [i \in 1..EngineWords |->
     (3 * words[i] + words[(i % EngineWords) + 1] + 1) % EngineModulus]

\* One draw: the value and the engine after it
Draw(e) ==
  LET e1 == IF e.pos >= EngineWords
            THEN [words |-> Twist(e.words), pos |-> 0]
            ELSE e
  IN [value |-> (5 * e1.words[e1.pos + 1] + 3) % EngineModulus,
      engine |-> [e1 EXCEPT !.pos = e1.pos + 1]]

\* Decimal text
DigitChars == <<"0", "1", "2", "3", "4", "5", "6", "7", "8", "9">>
DigitValue(c) == (CHOOSE d \in 1..10 : DigitChars[d] = c) - 1

RECURSIVE ToDecimal(_)
ToDecimal(n) ==
  IF n < 10 THEN <<DigitChars[n + 1]>>
  ELSE ToDecimal(n \div 10) \o <<DigitChars[(n % 10) + 1]>>

RECURSIVE FromDecimal(_)
FromDecimal(t) ==
  IF Len(t) = 1 THEN DigitValue(t[1])
  ELSE 10 * FromDecimal(SubSeq(t, 1, Len(t) - 1)) + DigitValue(t[Len(t)])

\* The space-separated fields of a text
RECURSIVE Fields(_)
Fields(t) ==
  IF t = << >> THEN << >>
  ELSE LET stop == IF \E i \in 1..Len(t) : t[i] = " "
                   THEN CHOOSE i \in 1..Len(t) :
                          t[i] = " " /\ \A j \in 1..(i - 1) : t[j] # " "
                   ELSE Len(t) + 1
       IN <<SubSeq(t, 1, stop - 1)>> \o Fields(SubSeq(t, stop + 1, Len(t)))

RECURSIVE JoinFields(_)
JoinFields(fs) ==
  IF Len(fs) = 1 THEN fs[1]
  ELSE fs[1] \o <<" ">> \o JoinFields(Tail(fs))

\* Variant of WriteEngine: the position is not saved (the text always
\* carries the end position)
WriteEngine_WordsOnly(e) ==
  JoinFields([i \in 1..EngineWords |-> ToDecimal(e.words[i])]
             \o <<ToDecimal(EngineWords)>>)

\* operator<<(ostream, engine): the words, then the position, in decimal
WriteEngine(e) ==
  JoinFields([i \in 1..EngineWords |-> ToDecimal(e.words[i])]
             \o <<ToDecimal(e.pos)>>)

\* operator>>(istream, engine)
ReadEngine(t) ==
  LET fs == Fields(t)
  IN [words |-> [i \in 1..EngineWords |-> FromDecimal(fs[i])],
      pos |-> FromDecimal(fs[EngineWords + 1])]

\* ------------------------------------------------------------------------
\* Generator
\* ------------------------------------------------------------------------
MaxReactions == 2

\* Reactions, sources and targets a Generator can be given, each standing
\* for its contribution to the energy density; 0 is a null pointer
ReactionIds == {1, 2}
SourceIds == {1, 2}
TargetIds == {1, 2}

\* E_pdf_max_ is << >> while it holds marley_utils::UNKNOWN_MAX
UNKNOWN_MAX == << >>

Configuration(g) == <<g.reactions_, g.source_, g.target_>>

RECURSIVE SumXs(_)
SumXs(rs) == IF rs = << >> THEN 0 ELSE Head(rs) + SumXs(Tail(rs))

\* Integral over the source's energy range of the unnormalized density
Integral(cfg) == cfg[2] * cfg[3] * SumXs(cfg[1])

\* Maximum of the normalized density, as the search of rejection_sample
\* finds it
MaxEstimate(cfg) == cfg[2] + SumXs(cfg[1])

\* normalize_E_pdf(): norm_ and E_pdf_max_ are recomputed for the current
\* configuration
normalize_E_pdf(g) ==
  [g EXCEPT !.norm_ = Integral(Configuration(g)),
            !.E_pdf_max_ = g.E_PDF_MAX_DEFAULT_,
            !.normalized_for = Configuration(g)]

\* Generator(seed): default settings, nothing owned yet
Generator(seed) ==
  [seed_ |-> seed,
   rand_gen_ |-> SeedEngine(seed),
   norm_ |-> 1,
   source_ |-> 0,
   target_ |-> 0,
   reactions_ |-> << >>,
   E_pdf_max_ |-> UNKNOWN_MAX,
   E_PDF_MAX_DEFAULT_ |-> UNKNOWN_MAX,
   dont_normalize_E_pdf_ |-> FALSE,
   normalized_for |-> <<<< >>, 0, 0>>]

reseed(g, seed) ==
  [g EXCEPT !.seed_ = seed, !.rand_gen_ = SeedEngine(seed)]

get_state_string(g) == WriteEngine(g.rand_gen_)

seed_using_state_string(g, state_string) ==
  [g EXCEPT !.rand_gen_ = ReadEngine(state_string)]

clear_reactions(g) ==
  LET g1 == [g EXCEPT !.reactions_ = << >>]
  IN IF g1.dont_normalize_E_pdf_ THEN g1 ELSE normalize_E_pdf(g1)

add_reaction(g, reaction) ==
  LET g1 == [g EXCEPT !.reactions_ = Append(g.reactions_, reaction)]
  IN IF g1.dont_normalize_E_pdf_ THEN g1 ELSE normalize_E_pdf(g1)

\* Variant of set_source: the density is not renormalized
set_source_KeepsNorm(g, source) ==
  [g EXCEPT !.source_ = source]

set_source(g, source) ==
  LET g1 == [g EXCEPT !.source_ = source]
  IN IF g1.dont_normalize_E_pdf_ THEN g1 ELSE normalize_E_pdf(g1)

set_target(g, target) ==
  LET g1 == [g EXCEPT !.target_ = target]
  IN IF g1.dont_normalize_E_pdf_ THEN g1 ELSE normalize_E_pdf(g1)

\* Whether the Generator owns what the energy density needs
CanSample(g) == g.source_ # 0 /\ g.target_ # 0 /\ g.reactions_ # << >>

NoSample ==
  [threw |-> TRUE, norm |-> 0, max |-> 0, E |-> 0, reaction |-> 0,
   value |-> 0]

\* E_pdf(E): the normalization constant the returned density was divided by
E_pdf(g, E) ==
  IF ~CanSample(g) THEN NoSample
  ELSE [NoSample EXCEPT !.threw = FALSE, !.norm = g.norm_, !.E = E]

uniform_random_double(g) ==
  LET d == Draw(g.rand_gen_)
  IN [g |-> [g EXCEPT !.rand_gen_ = d.engine],
      out |-> [NoSample EXCEPT !.threw = FALSE, !.value = d.value]]

\* sample_reaction(E): an energy by rejection sampling under E_pdf_max_
\* (searched for first while it is unknown), then a reaction from the
\* discrete distribution over the total cross sections
sample_reaction(g) ==
  IF ~CanSample(g) THEN [g |-> g, out |-> NoSample]
  ELSE LET max == IF g.E_pdf_max_ = UNKNOWN_MAX
                  THEN MaxEstimate(Configuration(g))
                  ELSE g.E_pdf_max_[1]
           d1 == Draw(g.rand_gen_)
           d2 == Draw(d1.engine)
           r_index == (d2.value % Len(g.reactions_)) + 1
       IN [g |-> [g EXCEPT !.rand_gen_ = d2.engine, !.E_pdf_max_ = <<max>>],
           out |-> [threw |-> FALSE, norm |-> g.norm_, max |-> max,
                    E |-> d1.value % (max + 1),
                    reaction |-> g.reactions_[r_index],
                    value |-> 0]]

\* ------------------------------------------------------------------------
\* Level sampling of NuclearReaction::create_event, step by step
\* ------------------------------------------------------------------------
\* The index std::discrete_distribution gives for the weights params and
\* the engine draw u (0: the first index of positive weight, 1: the last)
SampleIndex(params, u) ==
  LET positive == {i \in 1..Len(params) : params[i] > 0}
  IN IF u = 0
     THEN CHOOSE i \in positive : \A j \in positive : i <= j
     ELSE CHOOSE i \in positive : \A j \in positive : j <= i

\* What a create_event call ends with: an error, or the level sampled
LevelOutcome(r, me_index) ==
  IF me_index > Len(r.matrix_elements_)
  THEN [threw |-> TRUE, E_level |-> 0]
  ELSE [threw |-> FALSE, E_level |-> r.matrix_elements_[me_index].level_energy]

\* The checks of create_event before the sampling: TRUE when it goes on
PassesChecks(r, pdg_a, KEa) ==
  LET h == summed_xs_helper(r, pdg_a, KEa, 0, FALSE)
  IN /\ pdg_a = r.pdg_a_
     /\ ~BelowThreshold(r, KEa)
     /\ h.level_xsecs # << >>
     /\ h.xsec > 0

\* ------------------------------------------------------------------------
\* Initial states: a constructed reaction, no call made yet
\* ------------------------------------------------------------------------
\* <<target mass mb, ground-state residue mass md_gs>>
NuclearMasses == {<<2, 3>>, <<4, 3>>, <<4, 5>>}
DsigmaValues == {NaN, Num(-1), Num(1)}
AtomicNumbers == {1, 2}

ResidueCharge(pt) ==
  CASE pt = "NeutrinoCC" -> 1
    [] pt = "AntiNeutrinoCC" -> -1
    [] pt = "DM" -> 1
    [] OTHER -> 0

NuclearReactions ==
  {NuclearReaction(pt, pdg_a, TargetPdg, get_ejectile_pdg(pdg_a, pt),
                   ResiduePdg(ResidueCharge(pt)), ResidueCharge(pt),
                   m[1], m[2], mes, ds) :
     pt \in ProcessType, pdg_a \in {ELECTRON_NEUTRINO, DM},
     m \in NuclearMasses,
     mes \in MatrixElementLists, ds \in DsigmaValues}

NuclearConfigs ==
  {r \in NuclearReactions : r.pdg_a_ \in get_projectiles(r.process_type_)}

ElectronConfigs ==
  {ElectronReaction(pdg_a, Z) :
     pdg_a \in {ELECTRON_NEUTRINO, MUON_ANTINEUTRINO}, Z \in AtomicNumbers}

NoThreshold == [num |-> 0, den |-> 1]

NoCall ==
  [op |-> "none", pdg |-> 0, KEa |-> 0, cos |-> 0, threw |-> FALSE,
   value |-> 0, thr |-> NoThreshold, event |-> << >>, me_index |-> -1]

\* No physics function called, no Generator built, no worker started
NoPhysCall == [op |-> "none", args |-> << >>, res |-> << >>]
NoGenerators ==
  [G |-> << >>, H |-> << >>, op |-> "none", out |-> << >>, outH |-> << >>,
   use |-> "fresh", afterChange |-> FALSE, calls |-> 0, restoredAt |-> 0]
NoWorkers == [stateful |-> FALSE, ldist |-> << >>, w |-> << >>]

Init ==
  /\ rx \in NuclearConfigs \cup ElectronConfigs
  /\ md_ = IF rx.variant = "NuclearReaction"
           THEN << >>
           ELSE <<get_particle_mass(ELECTRON)>>
  /\ last = NoCall
  /\ phys = NoPhysCall
  /\ gen = NoGenerators
  /\ par = NoWorkers

\* ------------------------------------------------------------------------
\* Calls
\* ------------------------------------------------------------------------
\* The program is single-threaded: a call is made when no result is pending
Idle == last.op = "none"

CallTotalXs ==
  /\ Idle
  /\ \E pdg \in PdgInputs(rx), KEa \in KEInputs :
       /\ last' = [NoCall EXCEPT !.op = "total_xs", !.pdg = pdg,
                                 !.KEa = KEa,
                                 !.value = total_xs(rx, md_, pdg, KEa)]
       /\ UNCHANGED <<rx, md_, phys, gen, par>>

CallDiffXs ==
  /\ Idle
  /\ \E pdg \in PdgInputs(rx), KEa \in KEInputs, cos \in CosInputs :
       /\ last' = [NoCall EXCEPT !.op = "diff_xs", !.pdg = pdg, !.KEa = KEa,
                                 !.cos = cos,
                                 !.value = diff_xs(rx, md_, pdg, KEa, cos)]
       /\ UNCHANGED <<rx, md_, phys, gen, par>>

CallThreshold ==
  /\ Idle
  /\ last' = [NoCall EXCEPT !.op = "threshold_kinetic_energy",
                            !.thr = threshold_kinetic_energy(rx)]
  /\ UNCHANGED <<rx, md_, phys, gen, par>>

CallCreateEvent ==
  /\ Idle
  /\ \E pdg \in PdgInputs(rx), KEa \in KEInputs :
       \E o \in create_event(rx, md_, pdg, KEa) :
         /\ last' = [NoCall EXCEPT !.op = "create_event", !.pdg = pdg,
                                   !.KEa = KEa, !.threw = o.threw,
                                   !.event = o.event,
                                   !.me_index = o.me_index]
         /\ md_' = o.md
         /\ UNCHANGED <<rx, phys, gen, par>>

\* The caller takes the result (or catches the error); the reaction object
\* stays as the call left it
Return ==
  /\ ~Idle
  /\ last' = NoCall
  /\ UNCHANGED <<rx, md_, phys, gen, par>>

Next ==
  \/ CallTotalXs
  \/ CallDiffXs
  \/ CallThreshold
  \/ CallCreateEvent
  \/ Return

Spec == Init /\ [][Next]_vars

\* ------------------------------------------------------------------------
\* Calls of the free-standing physics functions and of the ElectronReaction
\* constructor, on inputs drawn from bounded sets
\* ------------------------------------------------------------------------
MaxEa == 5

\* The reaction held while other parts of the program are exercised
QuietReaction ==
  /\ rx = ElectronReaction(ELECTRON_NEUTRINO, 1)
  /\ md_ = <<get_particle_mass(ELECTRON)>>
  /\ last = NoCall

KinematicMasses == [ma : {0, 2}, mb : {2, 4}, mc : {0, 1}, md : {3, 5}]
EmaInputs == [ok : BOOLEAN, F_EMA : 0..MaxFactor, F_MEMA : 0..MaxFactor]
ProjectileCodes == {12, -12, 14, -14, 16, -16, DM, ELECTRON, 0}

PhysInit ==
  /\ QuietReaction
  /\ phys = NoPhysCall
  /\ gen = NoGenerators
  /\ par = NoWorkers

PhysIdle == phys.op = "none"

CallDetermineGammaTransitionType ==
  /\ PhysIdle
  /\ \E twoJi \in 0..MaxTwoJ, twoJf \in 0..MaxTwoJ, Pi \in Parities,
        Pf \in Parities :
       phys' = [op |-> "determine_gamma_transition_type",
                args |-> <<twoJi, Pi, twoJf, Pf>>,
                res |-> determine_gamma_transition_type(twoJi, Pi, twoJf, Pf)]
  /\ UNCHANGED <<rx, md_, last, gen, par>>

CallGammaStrengthFunction ==
  /\ PhysIdle
  /\ \E type \in TransitionTypeInputs, l \in (-1)..MaxL, e_gamma \in 1..2 :
       phys' = [op |-> "gamma_strength_function",
                args |-> <<18, 40, type, l, e_gamma>>,
                res |-> gamma_strength_function(18, 40, type, l, e_gamma)]
  /\ UNCHANGED <<rx, md_, last, gen, par>>

CallTwoTwoScatter ==
  /\ PhysIdle
  /\ \E k \in KinematicMasses, Ea \in 0..MaxEa :
       phys' = [op |-> "two_two_scatter",
                args |-> <<k, Ea>>,
                res |-> two_two_scatter(k, Ea)]
  /\ UNCHANGED <<rx, md_, last, gen, par>>

CallCoulombCorrectionFactor ==
  /\ PhysIdle
  /\ \E mode \in CoulombModeInputs, fermi_func \in 0..MaxFactor,
        e \in EmaInputs :
       phys' = [op |-> "coulomb_correction_factor",
                args |-> <<mode, fermi_func, e>>,
                res |-> coulomb_correction_factor(mode, fermi_func, e)]
  /\ UNCHANGED <<rx, md_, last, gen, par>>

CallConstructElectronReaction ==
  /\ PhysIdle
  /\ \E pdg_a \in ProjectileCodes, Z \in AtomicNumbers :
       phys' = [op |-> "ElectronReaction",
                args |-> <<pdg_a, Z>>,
                res |-> ConstructElectronReaction(pdg_a, Z)]
  /\ UNCHANGED <<rx, md_, last, gen, par>>

\* Any vector of matrix elements can be handed to the constructor; the
\* order of its elements is the business of whoever builds it
AnyMatrixElementLists == UNION {[1..n -> MatrixElement] : n \in 0..MaxME}

LoopReactions ==
  {NuclearReaction("NeutrinoCC", ELECTRON_NEUTRINO, TargetPdg, ELECTRON,
                   ResiduePdg(1), 1, m[1], m[2], mes, ds) :
     m \in NuclearMasses, mes \in AnyMatrixElementLists,
     ds \in DsigmaValues}

\* summed_xs_helper called for the total cross section at two energies
CallSummedXsHelper ==
  /\ PhysIdle
  /\ \E r \in LoopReactions, KEa \in 1..MaxKE, KEb \in 1..MaxKE :
       /\ KEa <= KEb
       /\ LET h == summed_xs_helper(r, r.pdg_a_, KEa, 0, FALSE)
          IN phys' = [op |-> "summed_xs_helper",
                      args |-> <<r, KEa, KEb>>,
                      res |-> [lower |-> Contributors(r, KEa, 1),
                               upper |-> Contributors(r, KEb, 1),
                               xsec |-> h.xsec,
                               level_xsecs |-> h.level_xsecs]]
  /\ UNCHANGED <<rx, md_, last, gen, par>>

\* The reactions the per-level functions are called on: one of each
\* process type and pair of masses
LevelReactions ==
  {NuclearReaction(pt, pdg_a, TargetPdg, get_ejectile_pdg(pdg_a, pt),
                   ResiduePdg(ResidueCharge(pt)), ResidueCharge(pt),
                   m[1], m[2], << >>, Num(1)) :
     pt \in ProcessType, pdg_a \in {ELECTRON_NEUTRINO, DM},
     m \in NuclearMasses}

CallLevelTotalXs ==
  /\ PhysIdle
  /\ \E r \in LevelReactions, me \in MatrixElement, KEa \in 1..MaxKE,
        check_max_E_level \in BOOLEAN :
       /\ r.pdg_a_ \in get_projectiles(r.process_type_)
       /\ phys' = [op |-> "total_xs_MatrixElement",
                   args |-> <<r, me, KEa, check_max_E_level>>,
                   res |-> total_xs_MatrixElement(r, me, KEa,
                                                  check_max_E_level)]
  /\ UNCHANGED <<rx, md_, last, gen, par>>

CallLevelDiffXs ==
  /\ PhysIdle
  /\ \E r \in LevelReactions, me \in MatrixElement, KEa \in 1..MaxKE,
        cos \in CosInputs :
       /\ r.pdg_a_ \in get_projectiles(r.process_type_)
       /\ phys' = [op |-> "diff_xs_MatrixElement",
                   args |-> <<r, me, KEa, cos>>,
                   res |-> diff_xs_MatrixElement(r, me, KEa, cos)]
  /\ UNCHANGED <<rx, md_, last, gen, par>>

CallResidueSpinParity ==
  /\ PhysIdle
  /\ \E type \in ME_TypeInputs, final_lev \in LevelInputs,
        twoJ_gs \in 0..MaxTwoJ, P_gs \in Parities :
       \E o \in ResidueSpinParity(type, final_lev, twoJ_gs, P_gs) :
         phys' = [op |-> "residue_spin_parity",
                  args |-> <<type, final_lev, twoJ_gs, P_gs>>,
                  res |-> o]
  /\ UNCHANGED <<rx, md_, last, gen, par>>

CallMakeEventObject ==
  /\ PhysIdle
  /\ \E r \in LevelReactions, Ea \in 2..3, pc \in Momenta,
        E_level \in 0..MaxLevelEnergy :
       /\ r.pdg_a_ \in get_projectiles(r.process_type_)
       /\ phys' = [op |-> "make_event_object",
                   args |-> <<r, Ea, pc, E_level>>,
                   res |-> NuclearReaction_make_event_object(
                             r, r.md_gs_ + E_level, Ea, pc, 2, 4, E_level)]
  /\ UNCHANGED <<rx, md_, last, gen, par>>

ElectronProjectiles == {ELECTRON_NEUTRINO, -ELECTRON_NEUTRINO, 14, -14}

\* Electron reactions with the couplings of QuarterCouplings
QuarterElectronReactions ==
  {[ElectronReaction(pdg_a, Z) EXCEPT !.g1_ = QuarterCouplings(pdg_a).g1,
                                      !.g2_ = QuarterCouplings(pdg_a).g2] :
     pdg_a \in ElectronProjectiles, Z \in AtomicNumbers}

\* The part of ElectronReaction::create_event that ends with the maximum
CallElectronMaximum ==
  /\ PhysIdle
  /\ \E r \in QuarterElectronReactions, KEa \in 0..MaxKE :
       /\ ~BelowThreshold(r, KEa)
       /\ phys' = [op |-> "electron_maximum",
                   args |-> <<r, KEa>>,
                   res |-> ElectronMaximum(r, r.md_gs_, r.pdg_a_, KEa)]
  /\ UNCHANGED <<rx, md_, last, gen, par>>

CallWeisskopfPartialDecayWidth ==
  /\ PhysIdle
  /\ \E type \in TransitionTypeInputs, l \in 1..MaxMultipolarity,
        e_gamma \in 1..2 :
       \E o \in weisskopf_partial_decay_width(40, type, l, e_gamma) :
         phys' = [op |-> "weisskopf_partial_decay_width",
                  args |-> <<40, type, l, e_gamma>>,
                  res |-> o]
  /\ UNCHANGED <<rx, md_, last, gen, par>>

PhysReturn ==
  /\ ~PhysIdle
  /\ phys' = NoPhysCall
  /\ UNCHANGED <<rx, md_, last, gen, par>>

PhysNext ==
  \/ CallDetermineGammaTransitionType
  \/ CallGammaStrengthFunction
  \/ CallTwoTwoScatter
  \/ CallCoulombCorrectionFactor
  \/ CallConstructElectronReaction
  \/ CallSummedXsHelper
  \/ CallLevelTotalXs
  \/ CallLevelDiffXs
  \/ CallResidueSpinParity
  \/ CallMakeEventObject
  \/ CallElectronMaximum
  \/ CallWeisskopfPartialDecayWidth
  \/ PhysReturn

SpecPhysics == PhysInit /\ [][PhysNext]_vars

\* ------------------------------------------------------------------------
\* One Generator G driven through its public interface, and a second
\* Generator H restored from G's state string
\* ------------------------------------------------------------------------
MaxCalls == 3

\* A new Generator given the source, the target and the reactions of g
RECURSIVE AddReactions(_, _)
AddReactions(h, rs) ==
  IF rs = << >> THEN h ELSE AddReactions(add_reaction(h, Head(rs)), Tail(rs))

ConfiguredLike(g, seed) ==
  LET h0 == Generator(seed)
      h1 == IF g.source_ = 0 THEN h0 ELSE set_source(h0, g.source_)
      h2 == IF g.target_ = 0 THEN h1 ELSE set_target(h1, g.target_)
  IN AddReactions(h2, g.reactions_)

GenInit ==
  /\ QuietReaction
  /\ phys = NoPhysCall
  /\ \E seed \in Seeds : gen = [NoGenerators EXCEPT !.G = Generator(seed)]
  /\ par = NoWorkers

GenIdle == gen.op = "none"
Restored == gen.H # << >>

\* A change of what the energy density is made of
Changed(op, g) ==
  gen' = [gen EXCEPT !.G = g, !.op = op, !.out = << >>, !.outH = << >>,
                     !.use = IF gen.use = "fresh" THEN "fresh" ELSE "changed"]

GenAddReaction ==
  /\ GenIdle /\ ~Restored
  /\ Len(gen.G.reactions_) < MaxReactions
  /\ \E reaction \in ReactionIds :
       Changed("add_reaction", add_reaction(gen.G, reaction))
  /\ UNCHANGED <<rx, md_, last, phys, par>>

GenClearReactions ==
  /\ GenIdle /\ ~Restored
  /\ Changed("clear_reactions", clear_reactions(gen.G))
  /\ UNCHANGED <<rx, md_, last, phys, par>>

GenSetSource ==
  /\ GenIdle /\ ~Restored
  /\ \E source \in SourceIds :
       Changed("set_source", set_source(gen.G, source))
  /\ UNCHANGED <<rx, md_, last, phys, par>>

GenSetTarget ==
  /\ GenIdle /\ ~Restored
  /\ \E target \in TargetIds :
       Changed("set_target", set_target(gen.G, target))
  /\ UNCHANGED <<rx, md_, last, phys, par>>

GenReseed ==
  /\ GenIdle /\ ~Restored
  /\ \E seed \in Seeds :
       gen' = [gen EXCEPT !.G = reseed(gen.G, seed), !.op = "reseed",
                          !.out = << >>, !.outH = << >>]
  /\ UNCHANGED <<rx, md_, last, phys, par>>

\* H is built with the configuration of G and its own seed, then given the
\* state string of G
GenRestore ==
  /\ GenIdle /\ ~Restored
  /\ \E seed \in Seeds :
       gen' = [gen EXCEPT
                 !.H = <<seed_using_state_string(ConfiguredLike(gen.G, seed),
                                                 get_state_string(gen.G))>>,
                 !.op = "seed_using_state_string",
                 !.restoredAt = gen.calls,
                 !.out = << >>, !.outH = << >>]
  /\ UNCHANGED <<rx, md_, last, phys, par>>

\* The same call made on G and, once it exists, on H
GenEPdf ==
  /\ GenIdle
  /\ gen.calls < MaxCalls
  /\ \E E \in 1..2 :
       gen' = [gen EXCEPT
                 !.op = "E_pdf",
                 !.out = E_pdf(gen.G, E),
                 !.outH = IF Restored THEN <<E_pdf(gen.H[1], E)>> ELSE << >>,
                 !.use = IF CanSample(gen.G) THEN "used" ELSE gen.use,
                 !.afterChange = (gen.use = "changed"),
                 !.calls = gen.calls + 1]
  /\ UNCHANGED <<rx, md_, last, phys, par>>

GenUniformRandomDouble ==
  /\ GenIdle
  /\ gen.calls < MaxCalls
  /\ LET a == uniform_random_double(gen.G)
         b == uniform_random_double(gen.H[1])
     IN gen' = [gen EXCEPT
                  !.G = a.g,
                  !.H = IF Restored THEN <<b.g>> ELSE << >>,
                  !.op = "uniform_random_double",
                  !.out = a.out,
                  !.outH = IF Restored THEN <<b.out>> ELSE << >>,
                  !.calls = gen.calls + 1]
  /\ UNCHANGED <<rx, md_, last, phys, par>>

GenSampleReaction ==
  /\ GenIdle
  /\ gen.calls < MaxCalls
  /\ LET a == sample_reaction(gen.G)
         b == sample_reaction(gen.H[1])
     IN gen' = [gen EXCEPT
                  !.G = a.g,
                  !.H = IF Restored THEN <<b.g>> ELSE << >>,
                  !.op = "sample_reaction",
                  !.out = a.out,
                  !.outH = IF Restored THEN <<b.out>> ELSE << >>,
                  !.use = IF CanSample(gen.G) THEN "used" ELSE gen.use,
                  !.afterChange = (gen.use = "changed"),
                 !.afterChange = (gen.use = "changed"),
                  !.calls = gen.calls + 1]
  /\ UNCHANGED <<rx, md_, last, phys, par>>

GenReturn ==
  /\ ~GenIdle
  /\ gen' = [gen EXCEPT !.op = "none", !.out = << >>, !.outH = << >>]
  /\ UNCHANGED <<rx, md_, last, phys, par>>

GenNext ==
  \/ GenAddReaction
  \/ GenClearReactions
  \/ GenSetSource
  \/ GenSetTarget
  \/ GenReseed
  \/ GenRestore
  \/ GenEPdf
  \/ GenUniformRandomDouble
  \/ GenSampleReaction
  \/ GenReturn

SpecGenerator == GenInit /\ [][GenNext]_vars

\* ------------------------------------------------------------------------
\* Two workers, each calling create_event on its own NuclearReaction with
\* its own Generator.  The function-local static ldist of create_event is
\* the one object both reach; sample_from_distribution calls its non-const
\* operator()(rand_gen_, params).  Whether that operator writes the object
\* is left to the standard library: par.stateful is TRUE for a library that
\* installs params in the object before it draws, FALSE for one that leaves
\* the object alone.
\* ------------------------------------------------------------------------
MaxEvents == 2
Workers == {1, 2}

WorkerReactions ==
  {r \in NuclearConfigs :
     /\ r.process_type_ = "NeutrinoCC"
     /\ r.mb_ = 4 /\ r.md_gs_ = 3
     /\ r.dsigma = Num(1)
     /\ r.matrix_elements_ # << >>
     /\ \A i \in 1..Len(r.matrix_elements_) :
          /\ r.matrix_elements_[i].strength = 1
          /\ r.matrix_elements_[i].type = "FERMI"}

NoOutcome == [threw |-> FALSE, E_level |-> -1]

Worker(r, seed) ==
  [pc |-> "idle", r |-> r, md_ |-> r.md_gs_, rand_gen_ |-> SeedEngine(seed),
   KEa |-> 0, level_weights |-> << >>, u |-> 0, outcome |-> NoOutcome,
   events |-> 0]

\* The default constructor of ldist creates a single weight of 1
ParInit ==
  /\ QuietReaction
  /\ phys = NoPhysCall
  /\ gen = NoGenerators
  /\ \E stateful \in BOOLEAN, r1 \in WorkerReactions, r2 \in WorkerReactions :
       par = [stateful |-> stateful, ldist |-> <<1>>,
              w |-> <<Worker(r1, 1), Worker(r2, 2)>>]

\* create_event up to the construction of params: the checks and the
\* level weights
WorkerBegin(i) ==
  /\ par.w[i].pc = "idle"
  /\ par.w[i].events < MaxEvents
  /\ \E KEa \in 1..MaxKE :
       LET me == par.w[i]
           h == summed_xs_helper(me.r, me.r.pdg_a_, KEa, 0, FALSE)
       IN par' = [par EXCEPT !.w[i] =
                    IF PassesChecks(me.r, me.r.pdg_a_, KEa)
                    THEN [me EXCEPT !.pc = "params", !.KEa = KEa,
                                    !.level_weights = h.level_xsecs,
                                    !.outcome = NoOutcome]
                    ELSE [me EXCEPT !.pc = "done", !.KEa = KEa,
                                    !.level_weights = h.level_xsecs,
                                    !.outcome = [threw |-> TRUE, E_level |-> 0]]]
  /\ UNCHANGED <<rx, md_, last, phys, gen>>

\* ldist(rand_gen_, params) is entered
WorkerEnterLdist(i) ==
  /\ par.w[i].pc = "params"
  /\ par' = [par EXCEPT
               !.ldist = IF par.stateful THEN par.w[i].level_weights
                         ELSE par.ldist,
               !.w[i].pc = "draw"]
  /\ UNCHANGED <<rx, md_, last, phys, gen>>

\* ldist draws from the worker's engine; the rest of create_event follows
WorkerDraw(i) ==
  /\ par.w[i].pc = "draw"
  /\ LET me == par.w[i]
         d == Draw(me.rand_gen_)
         u == d.value % 2
         weights == IF par.stateful THEN par.ldist ELSE me.level_weights
         me_index == SampleIndex(weights, u)
         outcome == LevelOutcome(me.r, me_index)
     IN par' = [par EXCEPT !.w[i] =
                  [me EXCEPT !.pc = "done", !.rand_gen_ = d.engine, !.u = u,
                             !.outcome = outcome,
                             !.md_ = IF outcome.threw THEN me.md_
                                     ELSE me.r.md_gs_ + outcome.E_level]]
  /\ UNCHANGED <<rx, md_, last, phys, gen>>

WorkerReturn(i) ==
  /\ par.w[i].pc = "done"
  /\ par' = [par EXCEPT !.w[i].pc = "idle",
                        !.w[i].events = par.w[i].events + 1]
  /\ UNCHANGED <<rx, md_, last, phys, gen>>

ParNext ==
  \E i \in Workers :
    \/ WorkerBegin(i)
    \/ WorkerEnterLdist(i)
    \/ WorkerDraw(i)
    \/ WorkerReturn(i)

SpecParallel == ParInit /\ [][ParNext]_vars

\* ------------------------------------------------------------------------
\* Vocabulary of the properties
\* ------------------------------------------------------------------------
IsNuclear == rx.variant = "NuclearReaction"
IsElectron == rx.variant = "ElectronReaction"
Matching == last.pdg = rx.pdg_a_
Returned(op) == last.op = op /\ ~last.threw

\* KEa is below the value threshold_kinetic_energy() returns
KEBelowThreshold(KEa) ==
  LET t == threshold_kinetic_energy(rx) IN KEa * t.den < t.num

\* KEa equals the value threshold_kinetic_energy() returns
KEAtThreshold(KEa) ==
  LET t == threshold_kinetic_energy(rx) IN KEa * t.den = t.num

\* level_energy <= max_level_energy(KEa)
Accessible(level_energy, KEa) ==
  max_level_energy_cmp(rx, level_energy, KEa) \in {-1, 0}

AccessibleIndices(KEa) ==
  {i \in 1..Len(rx.matrix_elements_) :
     Accessible(rx.matrix_elements_[i].level_energy, KEa)}

\* Partial total cross section of matrix element i (0 when its strength
\* vanishes)
PartialOf(i, KEa) ==
  IF rx.matrix_elements_[i].strength = 0 THEN 0
  ELSE PartialXsec(rx, rx.matrix_elements_[i], KEa, 0, FALSE)

RECURSIVE SumOver(_, _)
SumOver(S, KEa) ==
  IF S = {} THEN 0
  ELSE LET i == CHOOSE j \in S : TRUE
       IN PartialOf(i, KEa) + SumOver(S \ {i}, KEa)

\* ------------------------------------------------------------------------
\* C1: total_xs(pdg, KE) with a pdg that is not the reaction's projectile
\* returns exactly 0 and raises no error, for both reaction variants.
\* ------------------------------------------------------------------------
C1_MismatchedProjectileZero ==
  (last.op = "total_xs" /\ ~Matching) => (last.value = 0 /\ ~last.threw)

\* a mismatched call at an energy where the reaction's own projectile has a
\* nonzero cross section
C1_Witness ==
  /\ last.op = "total_xs"
  /\ ~Matching
  /\ total_xs(rx, md_, rx.pdg_a_, last.KEa) # 0
  /\ last.value = 0

\* ------------------------------------------------------------------------
\* C2: create_event raises an error and returns no Event whenever the pdg
\* differs from the projectile or KE is below threshold_kinetic_energy(),
\* for both variants.
\* ------------------------------------------------------------------------
C2_CreateEventRejects ==
  (last.op = "create_event" /\ (~Matching \/ KEBelowThreshold(last.KEa)))
    => (last.threw /\ last.event = << >>)

\* the right projectile, below threshold, on an ElectronReaction
C2_Witness ==
  /\ last.op = "create_event"
  /\ IsElectron
  /\ Matching
  /\ KEBelowThreshold(last.KEa)
  /\ last.threw

\* ------------------------------------------------------------------------
\* C3: every Event a NuclearReaction returns was built from a matrix
\* element whose level energy is at most max_level_energy(KEa), whatever
\* mix of zero and nonzero strengths the (sorted) list holds.
\* ------------------------------------------------------------------------
C3_SampledLevelAccessible ==
  (IsNuclear /\ Returned("create_event")) =>
    /\ last.me_index + 1 \in 1..Len(rx.matrix_elements_)
    /\ last.event[1].Ex = rx.matrix_elements_[last.me_index + 1].level_energy
    /\ Accessible(last.event[1].Ex, last.KEa)

\* an Event from a list where a zero-strength element precedes a nonzero
\* one and the last element is out of reach
C3_Witness ==
  /\ IsNuclear
  /\ Returned("create_event")
  /\ Len(rx.matrix_elements_) = 2
  /\ rx.matrix_elements_[1].strength = 0
  /\ rx.matrix_elements_[2].strength # 0
  /\ Accessible(rx.matrix_elements_[2].level_energy, last.KEa)

\* an Event from a list whose last element is out of reach
C3_WitnessTruncated ==
  /\ IsNuclear
  /\ Returned("create_event")
  /\ Len(rx.matrix_elements_) = 2
  /\ rx.matrix_elements_[2].strength # 0
  /\ ~Accessible(rx.matrix_elements_[2].level_energy, last.KEa)

\* ------------------------------------------------------------------------
\* C4: NuclearReaction::create_event raises an error, and returns no
\* Event, when no matrix element is accessible at KEa or when the partial
\* cross sections of the accessible matrix elements sum to zero or less.
\* ------------------------------------------------------------------------
C4_NoLevelNoEvent ==
  (/\ IsNuclear
   /\ last.op = "create_event"
   /\ \/ AccessibleIndices(last.KEa) = {}
      \/ SumOver(AccessibleIndices(last.KEa), last.KEa) <= 0)
    => (last.threw /\ last.event = << >>)

\* right projectile, at or above threshold, an accessible level of nonzero
\* strength, and still nothing to sample
C4_Witness ==
  /\ IsNuclear
  /\ last.op = "create_event"
  /\ Matching
  /\ ~KEBelowThreshold(last.KEa)
  /\ last.KEa > 0
  /\ \E i \in AccessibleIndices(last.KEa) : rx.matrix_elements_[i].strength # 0
  /\ SumOver(AccessibleIndices(last.KEa), last.KEa) <= 0
  /\ last.threw

\* ------------------------------------------------------------------------
\* C5: for every reaction variant, diff_xs(pdg, KE, cos) returns 0 for
\* every scattering cosine with |cos| > 1, at every KE and for the matching
\* projectile.
\* ------------------------------------------------------------------------
C5_DiffZeroOutsideCosRange ==
  (last.op = "diff_xs" /\ Matching /\ (last.cos > 1 \/ last.cos < -1))
    => last.value = 0

\* ------------------------------------------------------------------------
\* C6: for every reaction variant and every process type, diff_xs and
\* total_xs return 0 for every projectile kinetic energy below
\* threshold_kinetic_energy() (matching projectile, level energies >= 0).
\* ------------------------------------------------------------------------
C6_ZeroBelowThreshold ==
  (/\ last.op \in {"total_xs", "diff_xs"}
   /\ Matching
   /\ KEBelowThreshold(last.KEa))
    => last.value = 0

\* ------------------------------------------------------------------------
\* C7: for a NuclearReaction with any list of matrix elements, total_xs and
\* diff_xs return 0, without raising an error, for every KEa <= 0 (also
\* when the reaction's threshold is negative).
\* ------------------------------------------------------------------------
C7_ZeroAtNonPositiveEnergy ==
  (IsNuclear /\ last.op \in {"total_xs", "diff_xs"} /\ last.KEa <= 0)
    => (last.value = 0 /\ ~last.threw)

\* KEa <= 0 at or above a negative threshold, the right projectile, a
\* cosine in range, and a level of nonzero strength and nonzero partial
\* cross section within reach
C7_Witness ==
  /\ IsNuclear
  /\ last.op \in {"total_xs", "diff_xs"}
  /\ last.KEa <= 0
  /\ Matching
  /\ last.cos \in {-1, 0, 1}
  /\ threshold_kinetic_energy(rx).num < 0
  /\ ~KEBelowThreshold(last.KEa)
  /\ \E i \in AccessibleIndices(last.KEa) : PartialOf(i, 1) # 0
  /\ last.value = 0

\* ------------------------------------------------------------------------
\* C8: threshold_kinetic_energy() of a reaction with ordinary two-body
\* kinematics (charged-current, neutral-current, neutrino-electron elastic)
\* equals ((mc+md)^2 - (ma+mb)^2)/(2 mb), md being the ground-state residue
\* mass, and keeps that value for the life of the reaction.
\* ------------------------------------------------------------------------
TwoBodyThresholdIs(t) ==
  t.den > 0 /\
  t.num * (2 * rx.mb_) =
    t.den * ((rx.mc_ + rx.md_gs_) * (rx.mc_ + rx.md_gs_)
             - (rx.ma_ + rx.mb_) * (rx.ma_ + rx.mb_))

C8_ThresholdFormula ==
  rx.process_type_ # "DM" =>
    /\ TwoBodyThresholdIs(threshold_kinetic_energy(rx))
    /\ last.op = "threshold_kinetic_energy" => TwoBodyThresholdIs(last.thr)

\* the threshold read after an event left the residue in an excited state
C8_Witness ==
  /\ rx.process_type_ # "DM"
  /\ IsNuclear
  /\ last.op = "threshold_kinetic_energy"
  /\ last.thr.num # 0
  /\ md_ # << >>
  /\ md_ # <<rx.md_gs_>>

\* ------------------------------------------------------------------------
\* C9: for every NuclearReaction, with the projectile KE exactly equal to
\* threshold_kinetic_energy(), max_level_energy(KE) is 0: a matrix element
\* at level energy 0 is accessible and every matrix element with level
\* energy > 0 is excluded from the summed cross section and from level
\* sampling.
\* ------------------------------------------------------------------------
GroundStateIndices ==
  {i \in 1..Len(rx.matrix_elements_) :
     rx.matrix_elements_[i].level_energy = 0}

C9_OnlyGroundStateAtThreshold ==
  (IsNuclear /\ last.op # "none" /\ KEAtThreshold(last.KEa)) =>
    /\ max_level_energy_cmp(rx, 0, last.KEa) = 0
    /\ \A i \in 1..Len(rx.matrix_elements_) :
         rx.matrix_elements_[i].level_energy > 0 =>
           ~Accessible(rx.matrix_elements_[i].level_energy, last.KEa)
    /\ (last.op = "total_xs" /\ Matching /\ last.KEa > 0) =>
         last.value = SumOver(GroundStateIndices, last.KEa)
    /\ Returned("create_event") => last.event[1].Ex = 0

\* the same statement for the process types with two-body kinematics
C9_OnlyGroundStateAtThresholdTwoBody ==
  rx.process_type_ # "DM" => C9_OnlyGroundStateAtThreshold

\* ------------------------------------------------------------------------
\* C10: for a NuclearReaction holding a single matrix element at level
\* energy 0 with nonzero strength, every successful create_event at KE
\* above threshold returns an Event whose residue excitation energy is
\* exactly 0 and whose final particle list has exactly two entries
\* (ejectile, residue).
\* ------------------------------------------------------------------------
SingleGroundStateElement ==
  /\ Len(rx.matrix_elements_) = 1
  /\ rx.matrix_elements_[1].level_energy = 0
  /\ rx.matrix_elements_[1].strength # 0

C10_GroundStateEvent ==
  (IsNuclear /\ SingleGroundStateElement /\ Returned("create_event")) =>
    LET ev == last.event[1]
    IN /\ ev.Ex = 0
       /\ Len(ev.final) = 2
       /\ ev.final[1].role = "pr_ejectile"
       /\ ev.final[2].role = "pr_residue"

C10_Witness ==
  /\ IsNuclear
  /\ SingleGroundStateElement
  /\ Returned("create_event")
  /\ ~KEBelowThreshold(last.KEa)
  /\ ~KEAtThreshold(last.KEa)
  /\ last.event # << >>

\* ------------------------------------------------------------------------
\* Vocabulary of the properties of the physics functions
\* ------------------------------------------------------------------------
Called(op) == phys.op = op
MinusOneToThe(l) == IF l % 2 = 0 THEN 1 ELSE -1
Min(a, b) == IF a <= b THEN a ELSE b

\* ------------------------------------------------------------------------
\* C11: determine_gamma_transition_type(twoJi, Pi, twoJf, Pf) raises an
\* error and returns no type for every input with twoJi = twoJf = 0 and for
\* every input where |twoJf - twoJi| is odd, for all four parity
\* combinations.
\* ------------------------------------------------------------------------
C11_ForbiddenTransitionsRejected ==
  Called("determine_gamma_transition_type") =>
    LET twoJi == phys.args[1]
        twoJf == phys.args[3]
    IN ((twoJi = 0 /\ twoJf = 0) \/ Abs(twoJf - twoJi) % 2 = 1)
         => (phys.res.threw /\ phys.res.type = "none")

\* a half-integer spin change between nonzero spins of opposite parities
C11_Witness ==
  /\ Called("determine_gamma_transition_type")
  /\ phys.args[1] = 1
  /\ phys.args[3] = 2
  /\ phys.args[2] # phys.args[4]
  /\ phys.res.threw

\* the 0 -> 0 transition
C11_WitnessZeroZero ==
  /\ Called("determine_gamma_transition_type")
  /\ phys.args[1] = 0
  /\ phys.args[3] = 0
  /\ phys.res.threw

\* ------------------------------------------------------------------------
\* C12: for every accepted input the multipolarity loaded is l = 1 when
\* twoJi = twoJf and l = |twoJf - twoJi| / 2 otherwise (so l >= 1), and the
\* type is electric exactly when Pi * Pf = (-1)^l, magnetic otherwise.
\* ------------------------------------------------------------------------
C12_MultipolarityAndType ==
  (Called("determine_gamma_transition_type") /\ ~phys.res.threw) =>
    LET twoJi == phys.args[1]
        Pi == phys.args[2]
        twoJf == phys.args[3]
        Pf == phys.args[4]
        l == phys.res.l
    IN /\ twoJi = twoJf => l = 1
       /\ twoJi # twoJf => 2 * l = Abs(twoJf - twoJi)
       /\ l >= 1
       /\ phys.res.type \in TransitionType
       /\ phys.res.type = "electric" <=> Pi * Pf = MinusOneToThe(l)

\* a quadrupole transition without change of parity, and so electric
C12_Witness ==
  /\ Called("determine_gamma_transition_type")
  /\ ~phys.res.threw
  /\ phys.res.l = 2
  /\ phys.args[2] = phys.args[4]
  /\ phys.res.type = "electric"

\* ------------------------------------------------------------------------
\* C13: determine_gamma_transition_type is symmetric under exchange of the
\* initial and the final state: the call with (twoJf, Pf, twoJi, Pi) has the
\* same outcome (same error, or same type and same l).
\* ------------------------------------------------------------------------
C13_ExchangeSymmetry ==
  Called("determine_gamma_transition_type") =>
    phys.res = determine_gamma_transition_type(phys.args[3], phys.args[4],
                                               phys.args[1], phys.args[2])

\* an accepted transition to a lower spin of the other parity
C13_Witness ==
  /\ Called("determine_gamma_transition_type")
  /\ phys.args[1] > phys.args[3]
  /\ phys.args[2] # phys.args[4]
  /\ ~phys.res.threw
  /\ phys.res.l > 1

\* ------------------------------------------------------------------------
\* C14: gamma_strength_function(Z, A, type, l, e_gamma) raises an error for
\* every l < 1 and for every type that is neither electric nor magnetic;
\* for l >= 1 with a recognized type it returns a value after at most one
\* nested self-call (magnetic evaluates electric l = 1 once).
\* ------------------------------------------------------------------------
C14_StrengthFunctionErrors ==
  Called("gamma_strength_function") =>
    LET type == phys.args[3]
        l == phys.args[4]
    IN /\ (l < 1 \/ type \notin TransitionType) => phys.res.threw
       /\ (l >= 1 /\ type \in TransitionType) =>
            /\ ~phys.res.threw
            /\ phys.res.nested <= 1
            /\ phys.res.nested = IF type = "magnetic" THEN 1 ELSE 0

\* a magnetic octupole: one nested call, a value returned
C14_Witness ==
  /\ Called("gamma_strength_function")
  /\ phys.args[3] = "magnetic"
  /\ phys.args[4] = 3
  /\ ~phys.res.threw
  /\ phys.res.nested = 1

\* an invalid multipolarity with a recognized type
C14_WitnessInvalidL ==
  /\ Called("gamma_strength_function")
  /\ phys.args[3] = "electric"
  /\ phys.args[4] = 0
  /\ phys.res.threw

\* ------------------------------------------------------------------------
\* C15: for every projectile energy at or above threshold, two_two_scatter
\* loads s = ma^2 + mb^2 + 2 mb Ea, a residue CM energy Ed_cm >= md and a
\* real ejectile momentum pc_cm >= 0 with Ec_cm^2 - pc_cm^2 = mc^2; a
\* negative radicand is clamped to pc_cm = 0, never NaN.
\* ------------------------------------------------------------------------
\* Ea is at or above the energy where sqrt(s) = mc + md
AtOrAboveThreshold(k, Ea) ==
  2 * k.mb * Ea >= (k.mc + k.md) * (k.mc + k.md) - k.ma * k.ma - k.mb * k.mb

\* the radicand Ec_cm^2 - mc^2, times 4 s
RadicandNum(k, res) == res.Ec_num * res.Ec_num - 4 * res.s * k.mc * k.mc

C15_TwoTwoScatter ==
  Called("two_two_scatter") =>
    LET k == phys.args[1]
        Ea == phys.args[2]
        res == phys.res
    IN /\ AtOrAboveThreshold(k, Ea) =>
            /\ res.s = k.ma * k.ma + k.mb * k.mb + 2 * k.mb * Ea
            /\ res.finite
            /\ \/ res.Ed_is_md
               \/ /\ res.Ed_num >= 0
                  /\ res.Ed_num * res.Ed_num >= 4 * res.s * k.md * k.md
            /\ res.pc2_num >= 0
            /\ res.Ec_num * res.Ec_num - res.pc2_num = 4 * res.s * k.mc * k.mc
       /\ (res.finite /\ RadicandNum(k, res) < 0) => res.pc2_num = 0

\* above threshold: a moving ejectile of nonzero mass and a residue energy
\* that the maximum with md left alone
C15_Witness ==
  /\ Called("two_two_scatter")
  /\ AtOrAboveThreshold(phys.args[1], phys.args[2])
  /\ phys.args[1].mc > 0
  /\ phys.args[1].ma > 0
  /\ phys.res.pc2_num > 0
  /\ ~phys.res.Ed_is_md

\* exactly at threshold: the ejectile is at rest
C15_WitnessAtThreshold ==
  /\ Called("two_two_scatter")
  /\ phys.res.s = (phys.args[1].mc + phys.args[1].md)
                    * (phys.args[1].mc + phys.args[1].md)
  /\ phys.res.pc2_num = 0

\* below threshold: a negative radicand, clamped
C15_WitnessClamped ==
  /\ Called("two_two_scatter")
  /\ phys.res.finite
  /\ RadicandNum(phys.args[1], phys.res) < 0
  /\ phys.res.pc2_num = 0

\* ------------------------------------------------------------------------
\* C16: coulomb_correction_factor in a hybrid mode (Fermi-EMA, Fermi-MEMA)
\* returns the Fermi function when the (M)EMA factor is kinematically
\* invalid; otherwise whichever of the Fermi function and the (M)EMA factor
\* is closer to 1, so |r - 1| = min(|Fermi - 1|, |EMA - 1|); mode 'none'
\* returns exactly 1 and mode 'Fermi' always returns the Fermi function.
\* ------------------------------------------------------------------------
C16_CoulombCorrection ==
  Called("coulomb_correction_factor") =>
    LET mode == phys.args[1]
        fermi_func == phys.args[2]
        e == phys.args[3]
        factor == IF mode = "FERMI_AND_MEMA" THEN e.F_MEMA ELSE e.F_EMA
        r == phys.res.value
    IN /\ mode = "NO_CORRECTION" => (~phys.res.threw /\ r = 1)
       /\ mode = "FERMI_FUNCTION" => (~phys.res.threw /\ r = fermi_func)
       /\ mode \in {"FERMI_AND_EMA", "FERMI_AND_MEMA"} =>
            /\ ~phys.res.threw
            /\ ~e.ok => r = fermi_func
            /\ e.ok =>
                 /\ r \in {fermi_func, factor}
                 /\ Abs(r - 1) = Min(Abs(fermi_func - 1), Abs(factor - 1))

\* a hybrid mode where the valid modified factor is the closer one and
\* differs from the unmodified one
C16_Witness ==
  /\ Called("coulomb_correction_factor")
  /\ phys.args[1] = "FERMI_AND_MEMA"
  /\ phys.args[3].ok
  /\ phys.args[3].F_MEMA # phys.args[3].F_EMA
  /\ Abs(phys.args[3].F_MEMA - 1) < Abs(phys.args[2] - 1)
  /\ Abs(phys.args[3].F_EMA - 1) > Abs(phys.args[2] - 1)
  /\ phys.res.value = phys.args[3].F_MEMA

\* a hybrid mode falling back to the Fermi function although the invalid
\* factor is closer to 1
C16_WitnessInvalid ==
  /\ Called("coulomb_correction_factor")
  /\ phys.args[1] = "FERMI_AND_EMA"
  /\ ~phys.args[3].ok
  /\ Abs(phys.args[3].F_EMA - 1) < Abs(phys.args[2] - 1)
  /\ phys.res.value = phys.args[2]

\* ------------------------------------------------------------------------
\* C17: ElectronReaction fixes (g1, g2) at construction from the projectile
\* alone: nu_e gives (1/2 + sin2thetaw, sin2thetaw), nu_mu and nu_tau give
\* (-1/2 + sin2thetaw, sin2thetaw), an antineutrino gets its neutrino's pair
\* with g1 and g2 exchanged, and every other projectile code (the dark
\* matter code 17 included) makes the construction fail with an error.
\* ------------------------------------------------------------------------
NeutrinoPair(pdg) ==
  IF pdg = 12 THEN <<ONE_HALF + sin2thetaw, sin2thetaw>>
  ELSE <<sin2thetaw - ONE_HALF, sin2thetaw>>

C17_WitnessDM ==
  /\ Called("ElectronReaction")
  /\ phys.args[1] = DM
  /\ phys.res.threw


\* ------------------------------------------------------------------------
\* Generator
\* ------------------------------------------------------------------------
SamplingCalls == {"E_pdf", "uniform_random_double", "sample_reaction"}

C18_WitnessMidBlock ==
  /\ gen.op = "seed_using_state_string"
  /\ gen.G.rand_gen_.pos \in 1..(EngineWords - 1)

AloneOutcome(i) ==
  LET me == par.w[i]
  IN IF PassesChecks(me.r, me.r.pdg_a_, me.KEa)
     THEN LevelOutcome(me.r, SampleIndex(me.level_weights, me.u))
     ELSE [threw |-> TRUE, E_level |-> 0]

C20_IndependentWhenLdistUntouched ==
  ~par.stateful =>
    \A i \in Workers :
      par.w[i].pc = "done" => par.w[i].outcome = AloneOutcome(i)

\* Both workers inside create_event at once, one of them finished
C20_Witness ==
  /\ ~par.stateful
  /\ par.w[1].pc = "done" /\ ~par.w[1].outcome.threw
  /\ par.w[2].pc = "draw"
  /\ par.w[1].level_weights # par.w[2].level_weights

\* ------------------------------------------------------------------------
\* Level sampling and the loop over the matrix elements
\* ------------------------------------------------------------------------
\* C21: the matrix element an Event of a NuclearReaction is built from is
\* the one whose partial cross section is the weight that was sampled; it
\* has nonzero strength.
C21_SampledElementOwnsWeight ==
  (IsNuclear /\ Returned("create_event")) =>
    /\ rx.matrix_elements_[last.me_index + 1].strength # 0
    /\ \E k \in 1..Len(Contributors(rx, last.KEa, 1)) :
         /\ Contributors(rx, last.KEa, 1)[k] = last.me_index + 1
         /\ summed_xs_helper(rx, last.pdg, last.KEa, 0, FALSE).level_xsecs[k] > 0

\* C21 for the lists in which no zero-strength element precedes an
\* accessible element of nonzero strength
C21_HoldsWithoutLeadingZeroStrength ==
  (\A i \in 1..Len(Contributors(rx, last.KEa, 1)) :
      Contributors(rx, last.KEa, 1)[i] = i)
    => C21_SampledElementOwnsWeight

Range(q) == {q[i] : i \in 1..Len(q)}

\* The level energies do not decrease along the list
Ascending(mes) ==
  \A i \in 1..(Len(mes) - 1) : mes[i].level_energy <= mes[i + 1].level_energy

\* Element i of r has a level energy above max_level_energy(KEa)
TooHighAt(r, i, KEa) ==
  max_level_energy_cmp(r, r.matrix_elements_[i].level_energy, KEa) = 1

\* The nonzero-strength elements of r within reach at KEa
WithinReach(r, KEa) ==
  {i \in 1..Len(r.matrix_elements_) :
     r.matrix_elements_[i].strength # 0 /\ ~TooHighAt(r, i, KEa)}

\* C22: no matrix element at or after the first one that is too high for
\* KEa contributes to the sum or gets a level weight; when the level
\* energies ascend, the contributing elements are exactly the
\* nonzero-strength elements within reach, one weight each, and an element
\* that contributes at KEa contributes at every higher energy.
C22_StopsAtFirstTooHigh ==
  Called("summed_xs_helper") =>
    LET r == phys.args[1]
        KEa == phys.args[2]
        KEb == phys.args[3]
    IN /\ \A i \in Range(phys.res.lower) :
            \A j \in 1..i : ~TooHighAt(r, j, KEa)
       /\ Len(phys.res.level_xsecs) = Len(phys.res.lower)
       /\ Ascending(r.matrix_elements_) =>
            /\ Range(phys.res.lower) = WithinReach(r, KEa)
            /\ Range(phys.res.upper) = WithinReach(r, KEb)
            /\ Range(phys.res.lower) \subseteq Range(phys.res.upper)

\* A list out of order: an element within reach, of nonzero strength, stands
\* after one that is too high and gets no weight
C22_Witness ==
  /\ Called("summed_xs_helper")
  /\ \E i \in WithinReach(phys.args[1], phys.args[2]) :
       /\ i \notin Range(phys.res.lower)
       /\ \E j \in 1..(i - 1) : TooHighAt(phys.args[1], j, phys.args[2])

\* An ascending list whose set of contributing elements grows with KEa
C22_WitnessGrows ==
  /\ Called("summed_xs_helper")
  /\ Ascending(phys.args[1].matrix_elements_)
  /\ Range(phys.res.lower) # {}
  /\ Range(phys.res.lower) # Range(phys.res.upper)

\* C23: every contributing level has its own entry in the level weights:
\* 0 when its partial cross section is NaN, the partial cross section
\* otherwise; the returned sum is the sum of the entries, a number.
C23_NaNPartialZeroed ==
  Called("summed_xs_helper") =>
    LET r == phys.args[1]
        KEa == phys.args[2]
        from == phys.res.lower
        level_xsecs == phys.res.level_xsecs
    IN /\ Len(level_xsecs) = Len(from)
       /\ \A k \in 1..Len(from) :
            LET p == dm_total_xs(r, r.matrix_elements_[from[k]], KEa, FALSE)
            IN level_xsecs[k] = IF isnan(p) THEN 0 ELSE p.v
       /\ phys.res.xsec \in Int
       /\ phys.res.xsec = SumSeq(level_xsecs)

\* Two levels within reach, both with a NaN partial cross section
C23_Witness ==
  /\ Called("summed_xs_helper")
  /\ isnan(phys.args[1].dsigma)
  /\ Len(phys.res.lower) = 2
  /\ phys.res.level_xsecs = <<0, 0>>
  /\ phys.res.xsec = 0

\* ------------------------------------------------------------------------
\* Per-level cross sections
\* ------------------------------------------------------------------------
\* C24: for a NuclearReaction of process type NeutrinoCC, AntiNeutrinoCC or
\* NC, the partial cross section of every contributing level, summed by
\* total_xs(pdg, KEa), is the value the per-level total_xs(matrix element,
\* KEa, ...) returns, computed by that function.
C24_AllowedApproximationUsed ==
  (/\ IsNuclear
   /\ Returned("total_xs")
   /\ Matching
   /\ last.KEa > 0
   /\ rx.process_type_ \in {"NeutrinoCC", "AntiNeutrinoCC", "NC"}) =>
    \A i \in Range(Contributors(rx, last.KEa, 1)) :
      LET me == rx.matrix_elements_[i]
          used == LevelCrossSection(rx, me, last.KEa)
          wanted == total_xs_MatrixElement(rx, me, last.KEa, FALSE)
      IN /\ used.callee = "total_xs"
         /\ wanted.outcome = "returned"
         /\ wanted.value.vanishes => (isnan(used.value) \/ used.value.v = 0)

\* The dark-matter formula is the one used when the process type is DM
C24_DarkMatterFormulaForDM ==
  (IsNuclear /\ Returned("total_xs") /\ Matching /\ last.KEa > 0
   /\ rx.process_type_ = "DM") =>
    /\ \A i \in Range(Contributors(rx, last.KEa, 1)) :
         LevelCrossSection(rx, rx.matrix_elements_[i], last.KEa).callee
           = "dm_total_xs"
    /\ last.value = SumOver(Range(Contributors(rx, last.KEa, 1)), last.KEa)

\* C25: a call of the per-level total_xs, or of the per-level diff_xs that
\* relies on it, ends with a returned number or a raised error, whatever
\* the process type of the reaction.
C25_EveryPathDefined ==
  (Called("total_xs_MatrixElement") \/ Called("diff_xs_MatrixElement")) =>
    phys.res.outcome \in {"returned", "threw"}

\* C25 for the process types other than DM: a number for NeutrinoCC,
\* AntiNeutrinoCC and NC, an error for NuElectronElastic unless the strength
\* vanishes or the level is rejected first
C25_DefinedUnlessDM ==
  (/\ Called("total_xs_MatrixElement") \/ Called("diff_xs_MatrixElement")
   /\ phys.args[1].process_type_ # "DM") =>
    /\ phys.res.outcome \in {"returned", "threw"}
    /\ phys.res.outcome = "threw" =>
         phys.args[1].process_type_ = "NuElectronElastic"

\* ------------------------------------------------------------------------
\* Spin-parity of the residue
\* ------------------------------------------------------------------------
\* C26: the residue spin-parity create_event records is the linked Level's
\* when there is one; otherwise the ground state's for a Fermi transition,
\* and for a Gamow-Teller transition the ground-state parity with twoJ = 2
\* when twoJ_gs = 0, else a value of |twoJ_gs - 2|, ..., twoJ_gs + 2 in
\* steps of 2.  Without a Level twoJ >= 0, twoJ and twoJ_gs are both odd or
\* both even, and they differ by at most 2.  The placeholder -99999 is
\* never recorded, and any other matrix-element type raises an error.
C26_ResidueSpinParity ==
  Called("residue_spin_parity") =>
    LET type == phys.args[1]
        final_lev == phys.args[2]
        twoJ_gs == phys.args[3]
        P_gs == phys.args[4]
        twoJ == phys.res.twoJ
        P == phys.res.P
    IN IF type \notin ME_Type THEN phys.res.threw
       ELSE /\ ~phys.res.threw
            /\ twoJ # -99999
            /\ final_lev # << >> =>
                 (twoJ = final_lev[1].twoJ /\ P = final_lev[1].parity)
            /\ final_lev = << >> =>
                 /\ P = P_gs
                 /\ twoJ >= 0
                 /\ (twoJ - twoJ_gs) % 2 = 0
                 /\ Abs(twoJ - twoJ_gs) <= 2
                 /\ type = "FERMI" => twoJ = twoJ_gs
                 /\ type = "GAMOW_TELLER" =>
                      /\ twoJ_gs = 0 => twoJ = 2
                      /\ twoJ >= Abs(twoJ_gs - 2)
                      /\ ~(twoJ_gs = 0 /\ twoJ = 0)

\* A Gamow-Teller transition to the continuum from a spin-1/2 ground state
\* ending at spin 3/2
C26_Witness ==
  /\ Called("residue_spin_parity")
  /\ phys.args[1] = "GAMOW_TELLER"
  /\ phys.args[2] = << >>
  /\ phys.args[3] = 1
  /\ phys.res.twoJ = 3

\* A Gamow-Teller transition to the continuum from a spin-0 ground state
C26_WitnessSpinZero ==
  /\ Called("residue_spin_parity")
  /\ phys.args[1] = "GAMOW_TELLER"
  /\ phys.args[2] = << >>
  /\ phys.args[3] = 0
  /\ phys.res.twoJ = 2

\* ------------------------------------------------------------------------
\* Events
\* ------------------------------------------------------------------------
\* C27: an Event built by make_event_object has two initial particles,
\* projectile then target, and two final particles, ejectile then residue,
\* each with its role; it records the excitation energy given and the
\* Reaction that built it; as constructed, the residue's CM momentum is the
\* negative of the ejectile's and the target is at rest with energy mb; for
\* a NuclearReaction the target has charge 0 and the residue charge q_d.
C27_EventParticles ==
  Called("make_event_object") =>
    LET r == phys.args[1]
        event == phys.res
    IN /\ Len(event.initial) = 2
       /\ event.initial[1].role = "pr_projectile"
       /\ event.initial[1].id = r.pdg_a_
       /\ event.initial[2].role = "pr_target"
       /\ event.initial[2].id = r.pdg_b_
       /\ Len(event.final) = 2
       /\ event.final[1].role = "pr_ejectile"
       /\ event.final[1].id = r.pdg_c_
       /\ event.final[2].role = "pr_residue"
       /\ event.final[2].id = r.pdg_d_
       /\ event.Ex = phys.args[4]
       /\ event.reaction = r
       /\ \A c \in 1..3 : event.final[2].p[c] = -event.final[1].p[c]
       /\ event.initial[2].p = <<0, 0, 0>>
       /\ event.initial[2].E = r.mb_
       /\ event.initial[2].charge = [set |-> TRUE, q |-> 0]
       /\ event.final[2].charge = [set |-> TRUE, q |-> r.q_d_]

\* An Event of an AntiNeutrinoCC reaction (q_d = -1) with an ejectile that
\* moves in the CM frame, to an excited level
C27_Witness ==
  /\ Called("make_event_object")
  /\ phys.args[1].process_type_ = "AntiNeutrinoCC"
  /\ phys.args[3] = <<1, -1, 1>>
  /\ phys.args[4] > 0
  /\ phys.res.final[2].p = <<-1, 1, -1>>
  /\ phys.res.final[2].charge = [set |-> TRUE, q |-> -1]

\* ------------------------------------------------------------------------
\* Attributes of a Reaction
\* ------------------------------------------------------------------------
\* C28: no call of total_xs, diff_xs, threshold_kinetic_energy or
\* create_event, successful or not, changes an attribute of the Reaction;
\* the residue mass md_ read after the call is the one read before it.
C28_AttributesUnchanged == [][rx' = rx /\ md_' = md_]_vars

\* C28 for the attributes other than the residue mass: species, the other
\* masses, process type, threshold and matrix elements stay as constructed
C28_OtherAttributesUnchanged == [][rx' = rx]_vars

\* C28 for the calls other than create_event, and for create_event calls
\* that raise an error: the residue mass stays
C28_ResidueMassKeptElsewhere ==
  [][(last'.op # "create_event" \/ last'.threw) => md_' = md_]_vars

\* C28 for ElectronReaction: the residue mass stays
C28_ElectronResidueMassKept == [][IsElectron => md_' = md_]_vars

\* ------------------------------------------------------------------------
\* C29

\* Scattering cosines in [-1, 1], in steps of 1/4
CosGrid == {[num |-> n, den |-> 4] : n \in -4..4}

InCosRange(c) == c.num >= COS_MIN * c.den /\ c.num <= COS_MAX * c.den

SameDouble(a, b) == ~DoubleLess(a, b) /\ ~DoubleLess(b, a)

\* cth is a stationary point of the (quadratic) differential cross section:
\* the values one unit to either side of it are equal
StationaryAt(r, KEa, cth) ==
  SameDouble(
    Electron_diff_xs_at(r, r.md_gs_, r.pdg_a_, KEa,
                        [num |-> cth.num + cth.den, den |-> cth.den]),
    Electron_diff_xs_at(r, r.md_gs_, r.pdg_a_, KEa,
                        [num |-> cth.num - cth.den, den |-> cth.den]))

\* C29: the maximum that ElectronReaction::create_event hands to rejection
\* sampling is the largest of diff_xs at cos = -1, diff_xs at cos = +1 and,
\* only when the stationary point cth = -A/B lies inside [-1, 1], diff_xs at
\* cth; it is at least diff_xs(cos) for every cos in [-1, 1], and it is never
\* the "lowest double" sentinel.
C29_MaximumBoundsDiffXs ==
  phys.op = "electron_maximum" =>
    LET r == phys.args[1]
        KEa == phys.args[2]
        m == phys.res
        at(c) == Electron_diff_xs_at(r, r.md_gs_, r.pdg_a_, KEa, c)
        considered ==
          {at([num |-> -1, den |-> 1]), at([num |-> 1, den |-> 1])}
            \cup (IF m.cth_in_range THEN {at(m.cth)} ELSE {})
    IN /\ ~m.max.lowest
       /\ \E v \in considered : SameDouble(v, m.max)
       /\ \A v \in considered : ~DoubleLess(m.max, v)
       /\ m.cth_in_range => InCosRange(m.cth) /\ StationaryAt(r, KEa, m.cth)
       /\ ~m.cth_in_range => m.dxs_at_cth.lowest
       /\ \A c \in CosGrid : ~DoubleLess(m.max, at(c))

\* A call above threshold whose stationary point lies strictly inside
\* [-1, 1], where the cross section is smaller than the maximum
C29_Witness ==
  /\ phys.op = "electron_maximum"
  /\ phys.res.cth_in_range
  /\ phys.res.cth.num > COS_MIN * phys.res.cth.den
  /\ phys.res.cth.num < COS_MAX * phys.res.cth.den
  /\ DoubleLess(phys.res.dxs_at_cth, phys.res.max)
  /\ phys.res.max.num > 0

\* A call whose stationary point lies outside [-1, 1]: the sentinel takes
\* part in the comparison and loses
C29_WitnessSentinel ==
  /\ phys.op = "electron_maximum"
  /\ ~phys.res.cth_in_range
  /\ phys.res.dxs_at_cth.lowest
  /\ phys.res.max.num > 0

\* ------------------------------------------------------------------------
\* C30

\* d = n * (n - 2) * ... * 3 * 1
RECURSIVE IsDoubleFactorial(_, _)
IsDoubleFactorial(d, n) ==
  IF n <= 1 THEN d = 1
  ELSE d > 0 /\ d % n = 0 /\ IsDoubleFactorial(d \div n, n - 2)

\* C30: weisskopf_partial_decay_width leaves the double factorial of 2l + 1
\* in its 32-bit signed accumulator for every multipolarity l >= 1, i.e.
\* dfact = (2l+1) (2l-1) ... 3 1, and it raises an error exactly when the
\* type is neither electric nor magnetic.
C30_DoubleFactorialInAccumulator ==
  phys.op = "weisskopf_partial_decay_width" =>
    /\ ~phys.res.ub
    /\ IsDoubleFactorial(phys.res.dfact, 2 * phys.args[3] + 1)
    /\ phys.res.outcome = "threw" <=> phys.args[2] \notin TransitionType

\* The part of C30 that holds: up to l = 9 the product fits, the accumulator
\* is the double factorial, and the error is raised exactly for a type that
\* is neither electric nor magnetic
C30_HoldsUpToNine ==
  (phys.op = "weisskopf_partial_decay_width" /\ phys.args[3] <= 9) =>
    /\ ~phys.res.ub
    /\ IsDoubleFactorial(phys.res.dfact, 2 * phys.args[3] + 1)
    /\ phys.res.outcome = "threw" <=> phys.args[2] \notin TransitionType

\* From l = 10 on the product 21!! = 13749310575 does not fit
C30_OverflowsFromTen ==
  (phys.op = "weisskopf_partial_decay_width" /\ phys.args[3] >= 10) =>
    phys.res.ub

\* l = 9: the largest double factorial that fits, 19!! = 654729075
C30_WitnessNineFits ==
  /\ phys.op = "weisskopf_partial_decay_width"
  /\ phys.args[3] = 9
  /\ phys.res.dfact = 654729075
  /\ phys.res.outcome = "returned"

\* l = 10 on a build that wraps: 21!! mod 2^32 = 864408687
C30_WitnessTenWraps ==
  /\ phys.op = "weisskopf_partial_decay_width"
  /\ phys.args[3] = 10
  /\ phys.res.dfact = 864408687
  /\ phys.res.outcome = "returned"

====
